---------------------------- MODULE Spec2Model ----------------------------
(***************************************************************************)
(* A model of the transaction analysis engine of the financial dashboard:  *)
(* rule-based and AI-assisted categorization (categorizer.py), the budget  *)
(* comparator (categorizer.py, get_budget_status) and the recurring        *)
(* payment detector (recurring_detector.py).                               *)
(*                                                                         *)
(* Strings are TLA+ strings; characters are the one-character strings      *)
(* SubSeq(s, i, i).  Amounts and budgets are integers (whole kronor) and   *)
(* dates are day numbers; every quotient the code computes in floating     *)
(* point (percent used, mean amount, mean interval) is kept as an exact    *)
(* fraction [num, den] and compared by cross-multiplication.               *)
(***************************************************************************)
EXTENDS Integers, Sequences, FiniteSets, TLC

VARIABLES
    df,               \* st.session_state.df: None or a table [columns, rows]
    mode,             \* the branch categorize_transactions_bulk took last
    response,         \* the outcome of the last text-completion call
    prompt,           \* the transactions listed in the categorizer's last prompt
    cat_error,        \* TRUE iff the last categorize call raised to its caller
    budgets,          \* st.session_state.budgets: category -> monthly budget
    budget_df,        \* the last result of get_budget_status
    min_occurrences,  \* the "Min occurrences" number input
    recurring_df,     \* st.session_state.recurring_payments
    uploaded_file,    \* the file handed to the loader, None before an upload
    load_error,       \* the error message the loader returned, None without
    last_load,        \* the last load: its file, the strategies tried, its result
    stats,            \* the last result of calculate_summary_stats
    anthropic_api_key,  \* ANTHROPIC_API_KEY as the insight generator receives it
    insights_run,     \* "idle", or how the last insight request ended
    ai_insights,      \* st.session_state.ai_insights
    totals,           \* the last result of calculate_recurring_totals
    summary,          \* what the last financial summary told the service
    categorized,      \* st.session_state.categorized
    page              \* what the last script run left on the page

\* the variables of ingestion and the summary, and of insight generation
ingest_vars == <<uploaded_file, load_error, last_load, stats>>
insight_vars == <<anthropic_api_key, insights_run, ai_insights>>

vars == <<df, mode, response, prompt, cat_error, budgets, budget_df,
          min_occurrences, recurring_df, uploaded_file, load_error,
          last_load, stats,
          anthropic_api_key, insights_run, ai_insights,
          totals, summary, categorized, page>>

-----------------------------------------------------------------------------
(* Bounds of the model *)

\* Words joined into one description
MaxWords == 2
\* Rows of a table handed to the categorizer
MaxRows == 3
\* Rows in a table for the prompt's cap
MaxBatchRows == 52
\* Labels in one service response
MaxLabels == 3
\* Rows of a table handed to the budget comparator
MaxBudgetRows == 2
\* Occurrences of a description whose day-gaps vary
MaxGapRows == 3
\* Occurrences of a description whose amounts vary
MaxAmountRows == 3
\* the most lines of a response text handed to the insight parser
MaxLines == 3
\* the most lines after the header of a recommendations section
MaxRecLines == 3
\* the most lines of an answer that mixes the sections
MaxSectionLines == 3
\* the most data rows of a file of the uploads that are enumerated row by row
MaxFileRows == 2

-----------------------------------------------------------------------------
(* Values *)

\* the range of the "Min occurrences" number input and its default
MinOccLow == 2
MinOccHigh == 10
MinOccDefault == 3

None == [none |-> TRUE]

Range(s) == {s[i] : i \in DOMAIN s}

Min(S) == CHOOSE x \in S : \A y \in S : x <= y

Max(S) == CHOOSE x \in S : \A y \in S : y <= x

SetField(r, f, v) == [g \in (DOMAIN r) \cup {f} |-> IF g = f THEN v ELSE r[g]]

-----------------------------------------------------------------------------
(* Strings *)

UpperChars == "ABCDEFGHIJKLMNOPQRSTUVWXYZÅÄÖ"
LowerChars == "abcdefghijklmnopqrstuvwxyzåäö"

\* str.lower() on one character
LowerChar(c) ==
    IF \E i \in 1..Len(UpperChars) : SubSeq(UpperChars, i, i) = c
    THEN LET i == CHOOSE j \in 1..Len(UpperChars) : SubSeq(UpperChars, j, j) = c
         IN  SubSeq(LowerChars, i, i)
    ELSE c

RECURSIVE Lower(_)
\* str.lower()
Lower(s) ==
    IF s = "" THEN ""
    ELSE LowerChar(SubSeq(s, 1, 1)) \o Lower(SubSeq(s, 2, Len(s)))

\* Python's  k in s  on strings
Contains(s, k) ==
    \E i \in 0..(Len(s) - Len(k)) : SubSeq(s, i + 1, i + Len(k)) = k

Whitespace == {" ", "\t", "\n"}

RECURSIVE LStrip(_)
LStrip(s) ==
    IF s # "" /\ SubSeq(s, 1, 1) \in Whitespace
    THEN LStrip(SubSeq(s, 2, Len(s)))
    ELSE s

RECURSIVE RStrip(_)
RStrip(s) ==
    IF s # "" /\ SubSeq(s, Len(s), Len(s)) \in Whitespace
    THEN RStrip(SubSeq(s, 1, Len(s) - 1))
    ELSE s

\* str.strip()
Strip(s) == RStrip(LStrip(s))

RECURSIVE SplitComma(_)
\* str.split(','): the pieces between the commas, at least one piece
SplitComma(s) ==
    IF \E i \in 1..Len(s) : SubSeq(s, i, i) = ","
    THEN LET i == Min({j \in 1..Len(s) : SubSeq(s, j, j) = ","})
         IN  <<SubSeq(s, 1, i - 1)>> \o SplitComma(SubSeq(s, i + 1, Len(s)))
    ELSE <<s>>

-----------------------------------------------------------------------------
(* categorizer.py: rule-based categorization *)

DEFAULT_CATEGORIES == <<
    [category |-> "Food & Groceries",
     keywords |-> <<"ICA", "Coop", "Hemköp", "Willys", "Supermarket", "Groceries">>],
    [category |-> "Transportation",
     keywords |-> <<"SL", "Shell", "Circle K", "Gas", "Fuel", "Parking">>],
    [category |-> "Entertainment",
     keywords |-> <<"Netflix", "Spotify", "HBO", "Steam", "Cinema">>],
    [category |-> "Shopping",
     keywords |-> <<"H&M", "Elgiganten", "IKEA", "Amazon", "Clothing">>],
    [category |-> "Housing",
     keywords |-> <<"Rent", "Landlord", "Electricity", "Vattenfall", "Water">>],
    [category |-> "Utilities",
     keywords |-> <<"Telia", "Telenor", "Internet", "Phone", "Mobile">>],
    [category |-> "Dining Out",
     keywords |-> <<"Restaurant", "Max", "McDonalds", "Cafe", "Bar">>],
    [category |-> "Healthcare",
     keywords |-> <<"Apoteket", "Pharmacy", "Doctor", "Hospital">>],
    [category |-> "Income",
     keywords |-> <<"Salary", "Deposit", "Transfer In", "Payment Received">>],
    [category |-> "Other",
     keywords |-> <<>>] >>

\* keyword.lower() of every keyword, in the declared order
LoweredKeywords ==
    [c \in 1..Len(DEFAULT_CATEGORIES) |->
        [k \in 1..Len(DEFAULT_CATEGORIES[c].keywords) |->
            Lower(DEFAULT_CATEGORIES[c].keywords[k])]]

RECURSIVE ScanKeywords(_, _, _)
\* the inner loop: does keyword k, or a later one, of category c occur
ScanKeywords(description_lower, c, k) ==
    IF k > Len(LoweredKeywords[c]) THEN FALSE
    ELSE IF Contains(description_lower, LoweredKeywords[c][k]) THEN TRUE
    ELSE ScanKeywords(description_lower, c, k + 1)

RECURSIVE ScanCategories_nodefault(_, _)
\* ScanCategories without the final  return 'Other'
ScanCategories_nodefault(description_lower, c) ==
    IF c > Len(DEFAULT_CATEGORIES) THEN ""
    ELSE IF ScanKeywords(description_lower, c, 1)
         THEN DEFAULT_CATEGORIES[c].category
    ELSE ScanCategories_nodefault(description_lower, c + 1)

RECURSIVE ScanCategories_last(_, _)
\* ScanCategories that keeps scanning after a hit: the last category wins
ScanCategories_last(description_lower, c) ==
    IF c > Len(DEFAULT_CATEGORIES) THEN "Other"
    ELSE LET later == ScanCategories_last(description_lower, c + 1)
         IN  IF later = "Other" /\ ScanKeywords(description_lower, c, 1)
             THEN DEFAULT_CATEGORIES[c].category
             ELSE later

RECURSIVE ScanCategories(_, _)
\* the outer loop, from category c on: the first category with a hit
ScanCategories(description_lower, c) ==
    IF c > Len(DEFAULT_CATEGORIES) THEN "Other"
    ELSE IF ScanKeywords(description_lower, c, 1)
         THEN DEFAULT_CATEGORIES[c].category
    ELSE ScanCategories(description_lower, c + 1)

categorize_transaction_simple(description) ==
    ScanCategories(Lower(description), 1)

-----------------------------------------------------------------------------
(* The descriptions the model categorizes *)

Words == {"ICA", "Supermarket", "Salary", "Deposit", "gas", "MAX", "Cinema",
          "xyz", "Transfer", "In", "Netflix"}

RECURSIVE DescriptionsOfWords(_)
\* the descriptions made of exactly n words
DescriptionsOfWords(n) ==
    IF n = 0 THEN {""}
    ELSE IF n = 1 THEN Words
    ELSE {d \o " " \o w : d \in DescriptionsOfWords(n - 1), w \in Words}

Descriptions == UNION {DescriptionsOfWords(n) : n \in 0..MaxWords}

TableDescriptions == {"ICA Supermarket", "Salary Deposit", "xyz"}

\* categorize_transaction_simple on every description of the model, worked
\* out once
RuleCategory ==
    [d \in Descriptions \cup TableDescriptions |->
        categorize_transaction_simple(d)]

-----------------------------------------------------------------------------
(* Tables *)

BaseColumns == {"date", "description", "amount", "type", "abs_amount"}

\* MakeRow with an amount of 0 taken for income
MakeRow_geq(date, description, amount) ==
    [date        |-> date,
     description |-> description,
     amount      |-> amount,
     type        |-> IF amount >= 0 THEN "Income" ELSE "Expense",
     abs_amount  |-> IF amount < 0 THEN -amount ELSE amount]

\* one row of the canonical table: type and abs_amount derive from amount
MakeRow(date, description, amount) ==
    [date        |-> date,
     description |-> description,
     amount      |-> amount,
     type        |-> IF amount > 0 THEN "Income" ELSE "Expense",
     abs_amount  |-> IF amount < 0 THEN -amount ELSE amount]

MakeTable(rows) == [columns |-> BaseColumns, rows |-> rows]

\* df['description'].apply(categorize_transaction_simple).tolist()
RuleBasedList(rows) ==
    [i \in 1..Len(rows) |-> RuleCategory[rows[i].description]]

\* df['category'] = categories
AssignCategory(d, categories) ==
    [columns |-> d.columns \cup {"category"},
     rows    |-> [i \in 1..Len(d.rows) |->
                     SetField(d.rows[i], "category", categories[i])]]

-----------------------------------------------------------------------------
(* categorizer.py: AI-assisted categorization *)

\* The outcome of client.messages.create and of reading its response: the call
\* is not made, it raises, or it returns a text.
NoCall == [called |-> FALSE, raised |-> FALSE, text |-> ""]
Raises == [called |-> TRUE, raised |-> TRUE, text |-> ""]
Returns(text) == [called |-> TRUE, raised |-> FALSE, text |-> text]

\* [cat.strip() for cat in categories_text.split(',')]
ParseLabels(text) ==
    LET categories_text == Strip(text)
        pieces == SplitComma(categories_text)
    IN  [i \in 1..Len(pieces) |-> Strip(pieces[i])]

\* the most transactions the categorizer lists in its prompt
PromptCap == 50

\* transactions[:50] as format_transactions_for_prompt is handed them
PromptTransactions(d) ==
    [i \in 1..Min({PromptCap, Len(d.rows)}) |->
        [description |-> d.rows[i].description, amount |-> d.rows[i].amount]]

\* categorize_with_ai filling a shortfall with 'Other'
categorize_with_ai_pad(d, outcome) ==
    IF outcome.raised
    THEN [raised |-> FALSE, categories |-> RuleBasedList(d.rows)]
    ELSE LET categories == ParseLabels(outcome.text)
             n == Len(d.rows)
         IN  [raised |-> FALSE,
              categories |-> [i \in 1..n |-> IF i <= Len(categories)
                                             THEN categories[i]
                                             ELSE "Other"]]

\* categorize_with_ai without its try/except
categorize_with_ai_notry(d, outcome) ==
    IF outcome.raised
    THEN [raised |-> TRUE, categories |-> <<>>]
    ELSE LET categories == ParseLabels(outcome.text)
             n == Len(d.rows)
             remaining == RuleBasedList(SubSeq(d.rows, Len(categories) + 1, n))
             extended == IF Len(categories) < n
                         THEN categories \o remaining
                         ELSE categories
         IN  [raised |-> FALSE, categories |-> SubSeq(extended, 1, n)]

\* the list categorize_with_ai returns, or the exception it lets through
categorize_with_ai(d, outcome) ==
    IF outcome.raised
    THEN [raised |-> FALSE, categories |-> RuleBasedList(d.rows)]
    ELSE LET categories == ParseLabels(outcome.text)
             n == Len(d.rows)
             remaining == RuleBasedList(SubSeq(d.rows, Len(categories) + 1, n))
             extended == IF Len(categories) < n
                         THEN categories \o remaining
                         ELSE categories
         IN  [raised |-> FALSE, categories |-> SubSeq(extended, 1, n)]

\* the table categorize_transactions_bulk returns, or the exception it lets
\* through; an api_key of None or '' is falsy and written ""
categorize_transactions_bulk(d, use_ai, api_key, outcome) ==
    IF use_ai /\ api_key # ""
    THEN LET r == categorize_with_ai(d, outcome)
         IN  IF r.raised
             THEN [raised |-> TRUE, df |-> d]
             ELSE [raised |-> FALSE, df |-> AssignCategory(d, r.categories)]
    ELSE [raised |-> FALSE, df |-> AssignCategory(d, RuleBasedList(d.rows))]

-----------------------------------------------------------------------------
(* Inputs of the categorizer *)

RECURSIVE SeqsOfLen(_, _)
SeqsOfLen(S, n) ==
    IF n = 0 THEN {<<>>}
    ELSE {Append(s, x) : s \in SeqsOfLen(S, n - 1), x \in S}

SeqsUpTo(S, n) == UNION {SeqsOfLen(S, k) : k \in 0..n}

\* rows in canonical order (date descending), one per description
RowsOf(descriptions) ==
    [i \in 1..Len(descriptions) |->
        MakeRow(100 - i, descriptions[i],
                IF descriptions[i] = "Salary Deposit" THEN 45000 ELSE -450)]

\* one transaction per description: what the rule-based matcher is asked
DescriptionTables == {MakeTable(RowsOf(<<d>>)) : d \in Descriptions}

\* tables of up to MaxRows transactions
CategorizerTables ==
    {MakeTable(RowsOf(ds)) : ds \in SeqsUpTo(TableDescriptions, MaxRows)}

\* labels as the service may write them; none is what the rule-based matcher
\* gives a description of TableDescriptions
Tokens == {"Shopping", " Dining Out "}

RECURSIVE JoinComma(_)
JoinComma(tokens) ==
    IF Len(tokens) = 1 THEN tokens[1]
    ELSE tokens[1] \o "," \o JoinComma(Tail(tokens))

ResponseTexts ==
    {""} \cup {JoinComma(ts) : ts \in SeqsUpTo(Tokens, MaxLabels) \ {<<>>}}

Outcomes == {Raises} \cup {Returns(t) : t \in ResponseTexts}

ApiKeys == {"", "sk-ant"}

\* tables of one row less than the prompt's cap up to MaxBatchRows rows: the
\* rows before the cap alike, the rows from the cap on of either description
BatchTables ==
    {MakeTable(RowsOf([i \in 1..(PromptCap - 1 + Len(tail)) |->
                          IF i < PromptCap THEN "xyz" ELSE tail[i - PromptCap + 1]])) :
        tail \in SeqsUpTo({"ICA Supermarket", "xyz"}, MaxBatchRows - PromptCap + 1)}

\* answers of one label, of a label per transaction listed, and of more
\* labels than were asked for
BatchLabelCounts == {1, PromptCap, PromptCap + 1, MaxBatchRows + 1}

BatchTexts ==
    {JoinComma([i \in 1..k |-> t]) : k \in BatchLabelCounts, t \in Tokens}

BatchOutcomes == {Raises} \cup {Returns(t) : t \in BatchTexts}

-----------------------------------------------------------------------------
(* The categorizer's session *)

IdleBudget == /\ budgets = <<>>
              /\ budget_df = None

IdleRecurring == /\ min_occurrences = MinOccDefault
                 /\ recurring_df = None

IdleIngest == /\ uploaded_file = None
              /\ load_error = None
              /\ last_load = None
              /\ stats = None

IdleReports == /\ totals = None
               /\ summary = None

IdlePage == /\ categorized = FALSE
            /\ page = None

IdleInsights == /\ anthropic_api_key = ""
                /\ insights_run = "idle"
                /\ ai_insights = None

InitCat ==
    /\ df = None
    /\ IdleIngest
    /\ IdleInsights
    /\ IdleReports
    /\ IdlePage
    /\ mode = "none"
    /\ response = NoCall
    /\ prompt = <<>>
    /\ cat_error = FALSE
    /\ IdleBudget
    /\ IdleRecurring

\* a transaction file is loaded into the empty session
Load(tables) ==
    /\ df = None
    /\ \E t \in tables : df' = t /\ categorized' = ("category" \in t.columns)
    /\ UNCHANGED <<mode, response, prompt, cat_error>>
    /\ UNCHANGED <<budgets, budget_df, min_occurrences, recurring_df>>
    /\ UNCHANGED <<ingest_vars, insight_vars>>
    /\ UNCHANGED <<totals, summary, page>>

LoadDescription == Load(DescriptionTables)

LoadTable == Load(CategorizerTables)

\* categorize_transactions_bulk as "Categorize Transactions" calls it, with
\* the key of the environment and, when the service is called, its outcome
CategorizeFrom(outcomes, use_ai_box, env_key) ==
    /\ df # None
    /\ LET api_key == IF use_ai_box THEN env_key ELSE ""
           use_ai == IF use_ai_box /\ api_key = "" THEN FALSE ELSE use_ai_box
           calls == use_ai /\ api_key # ""
       IN  \E outcome \in IF calls THEN outcomes ELSE {NoCall} :
             LET r == categorize_transactions_bulk(df, use_ai, api_key, outcome)
             IN  /\ df' = r.df
                 /\ categorized' = (categorized \/ ~r.raised)
                 /\ cat_error' = r.raised
                 /\ mode' = IF calls THEN "ai" ELSE "rule"
                 /\ response' = outcome
                 /\ prompt' = IF calls THEN PromptTransactions(df) ELSE <<>>
    /\ UNCHANGED <<budgets, budget_df, min_occurrences, recurring_df>>
    /\ UNCHANGED <<ingest_vars, insight_vars>>
    /\ UNCHANGED <<totals, summary, page>>

CategorizeWith(use_ai_box, env_key) == CategorizeFrom(Outcomes, use_ai_box, env_key)

\* the checkbox "Use AI Categorization" is not ticked
CategorizeRuleBased == \E env_key \in ApiKeys : CategorizeWith(FALSE, env_key)

Categorize ==
    \E use_ai_box \in BOOLEAN, env_key \in ApiKeys :
        CategorizeWith(use_ai_box, env_key)

NextRule == LoadDescription \/ CategorizeRuleBased

\* rule-based categorization of one description at a time
SpecRule == InitCat /\ [][NextRule]_vars

NextCat == LoadTable \/ Categorize

\* categorization of tables in either mode
SpecCat == InitCat /\ [][NextCat]_vars

LoadBatch == Load(BatchTables)

CategorizeBatch ==
    \E use_ai_box \in BOOLEAN, env_key \in ApiKeys :
        CategorizeFrom(BatchOutcomes, use_ai_box, env_key)

NextBatch == LoadBatch \/ CategorizeBatch

\* categorization of tables about as long as the prompt's cap
SpecBatch == InitCat /\ [][NextBatch]_vars

-----------------------------------------------------------------------------
(* Fractions: the exact value of a float quotient, den > 0 *)

Frac(num, den) == [num |-> num, den |-> den]

FracLeq(a, b) == a.num * b.den <= b.num * a.den

FracEq(a, b) == a.num * b.den = b.num * a.den

-----------------------------------------------------------------------------
(* categorizer.py: the budget comparator *)

RECURSIVE SumAbsAmount(_)
\* ['abs_amount'].sum()
SumAbsAmount(rows) ==
    IF rows = <<>> THEN 0
    ELSE Head(rows).abs_amount + SumAbsAmount(Tail(rows))

\* d[d[column] == value].rows
SelectRows(rows, column, value) ==
    SelectSeq(rows, LAMBDA r : r[column] = value)

\* actual.get(category, 0), actual the expenses' abs_amount summed by category
Actual(d, category) ==
    LET expense_df == SelectRows(d.rows, "type", "Expense")
    IN  SumAbsAmount(SelectRows(expense_df, "category", category))

\* BudgetRow with Status taken from  spent >= budget
BudgetRow_geq(category, budget, spent) ==
    [Category     |-> category,
     Budget       |-> budget,
     Spent        |-> spent,
     Remaining    |-> budget - spent,
     Percent_Used |-> IF budget > 0 THEN Frac(spent * 100, budget)
                                    ELSE Frac(0, 1),
     Status       |-> IF spent >= budget THEN "Over Budget" ELSE "Within Budget"]

\* BudgetRow with Percent Used taken from remaining instead of spent
BudgetRow_remaining(category, budget, spent) ==
    [Category     |-> category,
     Budget       |-> budget,
     Spent        |-> spent,
     Remaining    |-> budget - spent,
     Percent_Used |-> IF budget > 0 THEN Frac((budget - spent) * 100, budget)
                                    ELSE Frac(0, 1),
     Status       |-> IF spent > budget THEN "Over Budget" ELSE "Within Budget"]

\* one pass of the loop over budgets.items()
BudgetRow(category, budget, spent) ==
    [Category     |-> category,
     Budget       |-> budget,
     Spent        |-> spent,
     Remaining    |-> budget - spent,
     Percent_Used |-> IF budget > 0 THEN Frac(spent * 100, budget)
                                    ELSE Frac(0, 1),
     Status       |-> IF spent > budget THEN "Over Budget" ELSE "Within Budget"]

\* budget_data, as a set: the keys of a dict are distinct
BudgetData(d, b) ==
    {BudgetRow(category, b[category], Actual(d, category)) : category \in DOMAIN b}

\* the orders sort_values('Percent Used', ascending=False) may leave the rows
\* in: descending, rows of equal Percent Used in any order
SortedByPercentUsed(rowset) ==
    {s \in SeqsOfLen(rowset, Cardinality(rowset)) :
        /\ Range(s) = rowset
        /\ \A i, j \in 1..Len(s) :
             i < j => FracLeq(s[j].Percent_Used, s[i].Percent_Used)}

\* The outcomes of get_budget_status.  With no budget entry budget_data is
\* empty, pd.DataFrame([]) has no column 'Percent Used' and sort_values
\* raises KeyError.
get_budget_status(d, b) ==
    IF DOMAIN b = {}
    THEN {[raised |-> TRUE, rows |-> <<>>]}
    ELSE {[raised |-> FALSE, rows |-> s] : s \in SortedByPercentUsed(BudgetData(d, b))}

\* .round(-2) of num / den >= 0: to the nearest hundred, a tie to the even one
RoundHundreds(num, den) ==
    LET q == num \div (100 * den)
        rem == num - q * 100 * den
    IN  IF 2 * rem < 100 * den THEN q * 100
        ELSE IF 2 * rem > 100 * den THEN (q + 1) * 100
        ELSE IF q % 2 = 0 THEN q * 100 ELSE (q + 1) * 100

\* suggest_budgets(df), multiplier 1.2.  With no expense the date range is
\* NaT, its .days is nan, max(1, nan) is 1 and the grouped sum is empty: the
\* suggestion is the empty mapping.
suggest_budgets(d) ==
    LET expense_df == SelectRows(d.rows, "type", "Expense")
        dates == {r.date : r \in Range(expense_df)}
        date_range_days == Max(dates) - Min(dates)
        num_months == IF date_range_days * 100 > 3044
                      THEN Frac(date_range_days * 100, 3044)
                      ELSE Frac(1, 1)
        total_spending(category) ==
            SumAbsAmount(SelectRows(expense_df, "category", category))
    IN  IF expense_df = <<>> THEN <<>>
        ELSE [category \in {r.category : r \in Range(expense_df)} |->
                 RoundHundreds(total_spending(category) * 6 * num_months.den,
                               5 * num_months.num)]

-----------------------------------------------------------------------------
(* Inputs of the budget comparator *)

BudgetCategories == {"Food & Groceries", "Other"}

BudgetValues == {0, 50, 100}

\* budgets the editor leaves in the session: every value is >= 0
\* (number_input min_value=0)
BudgetMappings ==
    UNION {[K -> BudgetValues] : K \in (SUBSET BudgetCategories) \ {{}}}

BudgetAmounts == {-50, 50}

\* the days between one row of a table and the next
BudgetDayGap == 61

\* a categorized row; the comparator reads type, abs_amount and category
BudgetRowInputs ==
    {SetField(MakeRow(0, "", a), "category", c) :
        a \in BudgetAmounts, c \in BudgetCategories}

\* tables in canonical order, date descending
BudgetTables ==
    {[columns |-> BaseColumns \cup {"category"},
      rows |-> [i \in 1..Len(rows) |->
                  [rows[i] EXCEPT !.date = BudgetDayGap * (Len(rows) - i)]]] :
        rows \in SeqsUpTo(BudgetRowInputs, MaxBudgetRows)}

-----------------------------------------------------------------------------
(* The budget comparator's session *)

IdleCat == /\ mode = "none"
           /\ response = NoCall
           /\ prompt = <<>>
           /\ cat_error = FALSE

InitBudget ==
    /\ df = None
    /\ IdleIngest
    /\ IdleInsights
    /\ IdleReports
    /\ IdlePage
    /\ budgets \in BudgetMappings
    /\ budget_df = None
    /\ IdleCat
    /\ IdleRecurring

\* a categorized table replaces the session's table
LoadCategorized ==
    /\ \E t \in BudgetTables : df' = t /\ categorized' = ("category" \in t.columns)
    /\ UNCHANGED <<mode, response, prompt, cat_error, budgets, budget_df,
                   min_occurrences, recurring_df>>
    /\ UNCHANGED <<ingest_vars, insight_vars>>
    /\ UNCHANGED <<totals, summary, page>>

\* df[df['type'] == 'Expense']
Expenses(d) == [d EXCEPT !.rows = SelectRows(d.rows, "type", "Expense")]

\* the "Budget Overview" tab: get_budget_status on the session's expenses.
\* The tab takes the period from the table's dates first, so it gets here
\* only with a table that has rows.
BudgetOverview ==
    /\ df # None
    /\ df.rows # <<>>
    /\ budget_df' \in get_budget_status(Expenses(df), budgets)
    /\ UNCHANGED <<df, mode, response, prompt, cat_error, budgets,
                   min_occurrences, recurring_df>>
    /\ UNCHANGED <<ingest_vars, insight_vars>>
    /\ UNCHANGED <<totals, summary, categorized, page>>

\* "Suggest Budgets Based on Spending": the suggestion replaces the budgets
\* and the page is run again, which renders the overview from them
SuggestBudgets ==
    /\ df # None
    /\ df.rows # <<>>
    /\ budgets' = suggest_budgets(df)
    /\ budget_df' \in get_budget_status(Expenses(df), budgets')
    /\ UNCHANGED <<df, mode, response, prompt, cat_error, min_occurrences, recurring_df>>
    /\ UNCHANGED <<ingest_vars, insight_vars>>
    /\ UNCHANGED <<totals, summary, categorized, page>>

NextBudget == LoadCategorized \/ BudgetOverview \/ SuggestBudgets

SpecBudget == InitBudget /\ [][NextBudget]_vars

-----------------------------------------------------------------------------
(* recurring_detector.py: detect_recurring_payments *)

RECURSIVE Sum(_)
Sum(s) == IF s = <<>> THEN 0 ELSE Head(s) + Sum(Tail(s))

RECURSIVE InsertByValue(_, _)
InsertByValue(sorted, x) ==
    IF sorted = <<>> THEN <<x>>
    ELSE IF x < Head(sorted) THEN <<x>> \o sorted
    ELSE <<Head(sorted)>> \o InsertByValue(Tail(sorted), x)

RECURSIVE SortAscending(_)
\* the values of a column after sort_values, ascending
SortAscending(s) ==
    IF s = <<>> THEN <<>>
    ELSE InsertByValue(SortAscending(Tail(s)), Head(s))

Column(rows, column) == [i \in 1..Len(rows) |-> rows[i][column]]

\* expense_df[expense_df['description'] == description]
DescTransactions(d, description) ==
    SelectRows(SelectRows(d.rows, "type", "Expense"), "description", description)

\* (amounts.std() / avg_amount) squared, 0 when avg_amount is not > 0.  With
\* n amounts of sum S the deviations are (n x - S) / n, so that
\* std^2 = Sum (n x - S)^2 / n^3  and  avg^2 = S^2 / n^2.
VarianceSquared(amounts) ==
    LET n == Len(amounts)
        S == Sum(amounts)
        D == Sum([i \in 1..n |-> (n * amounts[i] - S) * (n * amounts[i] - S)])
    IN  IF S > 0 THEN Frac(D, n * S * S) ELSE Frac(0, 1)

\* VarianceTooHigh with the sample standard deviation (ddof = 1)
VarianceTooHigh_sample(amounts) ==
    LET n == Len(amounts)
        S == Sum(amounts)
        D == Sum([i \in 1..n |-> (n * amounts[i] - S) * (n * amounts[i] - S)])
    IN  S > 0 /\ n > 1 /\ 400 * D > (n - 1) * S * S

\* variance > 0.05, both sides squared: 0.05^2 = 1/400
VarianceTooHigh(amounts) ==
    LET v == VarianceSquared(amounts)
    IN  v.num * 400 > v.den

\* the day-gaps between consecutive dates of the date-sorted transactions
Intervals(rows) ==
    LET dates == SortAscending(Column(rows, "date"))
    IN  [i \in 1..(Len(dates) - 1) |-> dates[i + 1] - dates[i]]

\* Frequency with the upper bounds exclusive
Frequency_exclusive(avg_interval) ==
    LET s == avg_interval.num
        n == avg_interval.den
    IN  IF 25 * n <= s /\ s < 35 * n THEN "Monthly"
        ELSE IF 85 * n <= s /\ s < 95 * n THEN "Quarterly"
        ELSE IF 355 * n <= s /\ s < 375 * n THEN "Yearly"
        ELSE IF 6 * n <= s /\ s < 8 * n THEN "Weekly"
        ELSE "Every " \o ToString(s \div n) \o " days"

\* the frequency label of an average interval s / n; int() truncates
Frequency(avg_interval) ==
    LET s == avg_interval.num
        n == avg_interval.den
    IN  IF 25 * n <= s /\ s <= 35 * n THEN "Monthly"
        ELSE IF 85 * n <= s /\ s <= 95 * n THEN "Quarterly"
        ELSE IF 355 * n <= s /\ s <= 375 * n THEN "Yearly"
        ELSE IF 6 * n <= s /\ s <= 8 * n THEN "Weekly"
        ELSE "Every " \o ToString(s \div n) \o " days"

\* Qualifies with the count test  len(desc_transactions) <= min_occurrences
Qualifies_leq(rows, min_occ) ==
    /\ ~(Len(rows) <= min_occ)
    /\ ~VarianceTooHigh(Column(rows, "abs_amount"))
    /\ Intervals(rows) # <<>>

\* the three  continue  tests of the loop, none taken
Qualifies(rows, min_occ) ==
    /\ ~(Len(rows) < min_occ)
    /\ ~VarianceTooHigh(Column(rows, "abs_amount"))
    /\ Intervals(rows) # <<>>

\* desc_transactions['category'].iloc[0] after sort_values('date'): the
\* category of a transaction of the earliest date (the sort leaves rows of
\* equal date in any order), 'Unknown' without the column
FirstCategories(d, rows) ==
    IF "category" \in d.columns
    THEN LET dates == SortAscending(Column(rows, "date"))
         IN  {r.category : r \in {x \in Range(rows) : x.date = dates[1]}}
    ELSE {"Unknown"}

\* the dictionary appended to recurring
RecurringRecord(description, rows, category) ==
    LET dates == SortAscending(Column(rows, "date"))
        intervals == Intervals(rows)
        avg_interval == Frac(Sum(intervals), Len(intervals))
    IN  [description       |-> description,
         amount            |-> Frac(Sum(Column(rows, "abs_amount")), Len(rows)),
         frequency         |-> Frequency(avg_interval),
         occurrences       |-> Len(rows),
         first_date        |-> dates[1],
         last_date         |-> dates[Len(dates)],
         category          |-> category,
         avg_interval_days |-> avg_interval]

RecurringColumns ==
    {"description", "amount", "frequency", "occurrences", "first_date",
     "last_date", "category", "avg_interval_days"}

\* the orders sort_values('amount', ascending=False) may leave the records in
SortedByAmount(records) ==
    {s \in SeqsOfLen(records, Cardinality(records)) :
        /\ Range(s) = records
        /\ \A i, j \in 1..Len(s) : i < j => FracLeq(s[j].amount, s[i].amount)}

\* the outcomes of detect_recurring_payments: one record per description that
\* passes the three tests, pd.DataFrame() when there is none
detect_recurring_payments(d, min_occ) ==
    LET expense_rows == SelectRows(d.rows, "type", "Expense")
        unique == {r.description : r \in Range(expense_rows)}
        kept == {x \in unique : Qualifies(DescTransactions(d, x), min_occ)}
        firsts == [x \in kept |-> FirstCategories(d, DescTransactions(d, x))]
        choices == {c \in [kept -> UNION {firsts[x] : x \in kept}] :
                        \A x \in kept : c[x] \in firsts[x]}
    IN  IF kept = {}
        THEN {[columns |-> {}, rows |-> <<>>]}
        ELSE UNION {
               {[columns |-> RecurringColumns, rows |-> s] :
                   s \in SortedByAmount(
                            {RecurringRecord(x, DescTransactions(d, x), c[x]) :
                                x \in kept})} :
               c \in choices}

RECURSIVE GCD(_, _)
GCD(a, b) == IF b = 0 THEN a ELSE GCD(b, a % b)

\* a fraction in lowest terms; floats are held as exact fractions
Reduced(f) ==
    LET g == GCD(IF f.num < 0 THEN -f.num ELSE f.num, f.den)
    IN  Frac(f.num \div g, f.den \div g)

FracAdd(a, b) == Reduced(Frac(a.num * b.den + b.num * a.den, a.den * b.den))

RECURSIVE FracSum(_)
\* sum(monthly_costs), from 0
FracSum(s) == IF s = <<>> THEN Frac(0, 1) ELSE FracAdd(Head(s), FracSum(Tail(s)))

\* the monthly equivalent of one recurring payment; 4.33 is 433/100 and
\* 30.44 is 3044/100
MonthlyCost(row) ==
    LET amount == Reduced(row.amount)
        avg == row.avg_interval_days
    IN  IF row.frequency = "Monthly" THEN amount
        ELSE IF row.frequency = "Quarterly" THEN Reduced(Frac(amount.num, amount.den * 3))
        ELSE IF row.frequency = "Yearly" THEN Reduced(Frac(amount.num, amount.den * 12))
        ELSE IF row.frequency = "Weekly" THEN Reduced(Frac(amount.num * 433, amount.den * 100))
        ELSE Reduced(Frac(amount.num * 3044 * avg.den, amount.den * 100 * avg.num))

\* calculate_recurring_totals summing the amounts as they are
calculate_recurring_totals_asis(recurring) ==
    IF recurring.rows = <<>>
    THEN [raised |-> FALSE, monthly_total |-> Frac(0, 1),
          yearly_total |-> Frac(0, 1), count |-> 0]
    ELSE LET monthly_total ==
                 FracSum([k \in 1..Len(recurring.rows) |-> Reduced(recurring.rows[k].amount)])
         IN  [raised |-> FALSE,
              monthly_total |-> monthly_total,
              yearly_total  |-> Reduced(Frac(monthly_total.num * 12, monthly_total.den)),
              count         |-> Len(recurring.rows)]

\* What calculate_recurring_totals returns, or the ZeroDivisionError it lets
\* through: iterrows hands the loop plain floats, and a free-form payment
\* with an average interval of 0 days divides by it.
calculate_recurring_totals(recurring) ==
    IF recurring.rows = <<>>
    THEN [raised |-> FALSE, monthly_total |-> Frac(0, 1),
          yearly_total |-> Frac(0, 1), count |-> 0]
    ELSE IF \E k \in 1..Len(recurring.rows) :
               /\ recurring.rows[k].frequency
                      \notin {"Monthly", "Quarterly", "Yearly", "Weekly"}
               /\ recurring.rows[k].avg_interval_days.num = 0
    THEN [raised |-> TRUE, monthly_total |-> Frac(0, 1),
          yearly_total |-> Frac(0, 1), count |-> 0]
    ELSE LET monthly_total ==
                 FracSum([k \in 1..Len(recurring.rows) |-> MonthlyCost(recurring.rows[k])])
         IN  [raised |-> FALSE,
              monthly_total |-> monthly_total,
              yearly_total  |-> Reduced(Frac(monthly_total.num * 12, monthly_total.den)),
              count         |-> Len(recurring.rows)]

-----------------------------------------------------------------------------
(* Inputs of the recurring payment detector *)

Reverse(s) == [i \in 1..Len(s) |-> s[Len(s) + 1 - i]]

\* a categorized row of the session's table
RecurringRow(date, description, amount) ==
    SetField(MakeRow(date, description, amount), "category",
             RuleCategory[description])

\* the occurrences of one description, the first on day 0, oldest first
Occurrences(description, amounts, gaps) ==
    [i \in 1..Len(amounts) |->
        RecurringRow(Sum(SubSeq(gaps, 1, i - 1)), description, amounts[i])]

Repeat(x, n) == [i \in 1..n |-> x]

\* one amount, 30 days apart, 1 to MinOccHigh times
MonthlyGroups ==
    {Occurrences("Netflix", Repeat(-139, n), Repeat(30, n - 1)) :
        n \in 1..MinOccHigh}

RecurringAmounts == {0, -19, -20, -21, -22}

\* amounts that vary, 30 days apart
AmountGroups ==
    UNION {{Occurrences("Netflix", a, Repeat(30, n - 1)) :
               a \in SeqsOfLen(RecurringAmounts, n)} : n \in 2..MaxAmountRows}

Gaps == {0, 5, 6, 8, 9, 24, 25, 30, 31, 35, 36, 84, 85, 95, 96, 354, 355, 375, 376}

\* one amount, day-gaps that vary
GapGroups ==
    UNION {{Occurrences("Netflix", Repeat(-139, n), g) :
               g \in SeqsOfLen(Gaps, n - 1)} : n \in 2..MaxGapRows}

\* one amount, one gap more than in GapGroups, of 9 or 14 days: averages
\* that are no whole number of days
LongGapGroups ==
    {Occurrences("Netflix", Repeat(-139, MaxGapRows + 1), g) :
        g \in SeqsOfLen({9, 14}, MaxGapRows)}

\* rows older than day 0 that share the table with a group: none, or
\* three monthly expenses of another description
MonthlyRows ==
    {<<>>,
     <<RecurringRow(-30, "ICA Supermarket", -450),
       RecurringRow(-60, "ICA Supermarket", -450),
       RecurringRow(-90, "ICA Supermarket", -450)>>}

\* those, or an income of the same description
OtherRows == MonthlyRows \cup {<<RecurringRow(-5, "Netflix", 139)>>}

\* tables in canonical order, date descending
RecurringTables ==
    {[columns |-> BaseColumns \cup {"category"}, rows |-> Reverse(g) \o o] :
        g \in MonthlyGroups \cup AmountGroups, o \in OtherRows}
    \cup {[columns |-> BaseColumns \cup {"category"}, rows |-> Reverse(g) \o o] :
            g \in GapGroups \cup LongGapGroups, o \in MonthlyRows}

-----------------------------------------------------------------------------
(* The recurring payment detector's session *)

InitRec ==
    /\ df = None
    /\ IdleIngest
    /\ IdleInsights
    /\ IdleReports
    /\ IdlePage
    /\ min_occurrences \in MinOccLow..MinOccHigh
    /\ recurring_df = None
    /\ IdleCat
    /\ IdleBudget

\* a categorized table is loaded into the empty session
LoadRecurring ==
    /\ df = None
    /\ \E t \in RecurringTables : df' = t /\ categorized' = ("category" \in t.columns)
    /\ UNCHANGED <<mode, response, prompt, cat_error, budgets, budget_df,
                   min_occurrences, recurring_df>>
    /\ UNCHANGED <<ingest_vars, insight_vars>>
    /\ UNCHANGED <<totals, summary, page>>

\* "Detect Recurring Payments": the result is stored and, in the same run,
\* rendered; render_recurring_payments_ui computes the totals of a result
\* that is not empty
DetectRecurring ==
    /\ df # None
    /\ \E r \in detect_recurring_payments(df, min_occurrences) :
         /\ recurring_df' = r
         /\ totals' = IF r.rows = <<>> THEN None ELSE calculate_recurring_totals(r)
    /\ UNCHANGED <<df, mode, response, prompt, cat_error, budgets, budget_df,
                   min_occurrences>>
    /\ UNCHANGED <<ingest_vars, insight_vars>>
    /\ UNCHANGED <<summary, categorized, page>>

\* calculate_recurring_totals applied to the session's result, empty or not
RecurringTotals ==
    /\ recurring_df # None
    /\ totals' = calculate_recurring_totals(recurring_df)
    /\ UNCHANGED <<df, mode, response, prompt, cat_error, budgets, budget_df,
                   min_occurrences, recurring_df>>
    /\ UNCHANGED <<ingest_vars, insight_vars>>
    /\ UNCHANGED <<summary, categorized, page>>

NextRec == LoadRecurring \/ DetectRecurring \/ RecurringTotals

SpecRec == InitRec /\ [][NextRec]_vars

-----------------------------------------------------------------------------
(* ai_insights.py: parse_insights_response *)

\* str.upper() on one character
UpperChar(c) ==
    IF \E i \in 1..Len(LowerChars) : SubSeq(LowerChars, i, i) = c
    THEN LET i == CHOOSE j \in 1..Len(LowerChars) : SubSeq(LowerChars, j, j) = c
         IN  SubSeq(UpperChars, i, i)
    ELSE c

RECURSIVE Upper(_)
\* str.upper()
Upper(s) ==
    IF s = "" THEN ""
    ELSE UpperChar(SubSeq(s, 1, 1)) \o Upper(SubSeq(s, 2, Len(s)))

\* str.startswith
StartsWith(s, prefix) ==
    Len(s) >= Len(prefix) /\ SubSeq(s, 1, Len(prefix)) = prefix

RECURSIVE SplitLines(_)
\* str.split('\n'): the pieces between the newlines, at least one piece
SplitLines(s) ==
    IF \E i \in 1..Len(s) : SubSeq(s, i, i) = "\n"
    THEN LET i == Min({j \in 1..Len(s) : SubSeq(s, j, j) = "\n"})
         IN  <<SubSeq(s, 1, i - 1)>> \o SplitLines(SubSeq(s, i + 1, Len(s)))
    ELSE <<s>>

\* the bullet character U+2022, written as the one-character stand-in that
\* the string syntax admits
Bullet == "·"

RECURSIVE LStripChars(_, _)
\* str.lstrip(chars)
LStripChars(s, chars) ==
    IF s # "" /\ SubSeq(s, 1, 1) \in chars
    THEN LStripChars(SubSeq(s, 2, Len(s)), chars)
    ELSE s

RECURSIVE Remove(_, _)
\* str.replace(k, ''): every occurrence of k, left to right, is taken out
Remove(s, k) ==
    IF Contains(s, k)
    THEN LET i == Min({j \in 0..(Len(s) - Len(k)) : SubSeq(s, j + 1, j + Len(k)) = k})
         IN  SubSeq(s, 1, i) \o Remove(SubSeq(s, i + Len(k) + 1, Len(s)), k)
    ELSE s

\* the parser's locals before the first line; {} is the mapping of no key
ParserStart ==
    [insights |-> <<>>, recommendations |-> <<>>,
     current_section |-> "None", current_rec |-> <<>>]

\* ParseLine with a Priority: line that does not close the record in progress
ParseLine_noflush(st, raw) ==
    LET line == Strip(raw)
    IN  IF Contains(Upper(line), "INSIGHTS:")
        THEN [st EXCEPT !.current_section = "insights"]
        ELSE IF Contains(Upper(line), "RECOMMENDATIONS:")
        THEN [st EXCEPT !.current_section = "recommendations"]
        ELSE IF st.current_section = "insights"
        THEN IF StartsWith(line, "-") \/ StartsWith(line, Bullet)
             THEN LET insight == Strip(LStripChars(line, {"-", Bullet}))
                  IN  IF insight # ""
                      THEN [st EXCEPT !.insights = Append(@, insight)]
                      ELSE st
             ELSE st
        ELSE IF st.current_section = "recommendations"
        THEN IF StartsWith(line, "Priority:")
             THEN LET flushed == st
                  IN  [flushed EXCEPT !.current_rec =
                          SetField(@, "priority", Strip(Remove(line, "Priority:")))]
             ELSE IF StartsWith(line, "Category:")
             THEN [st EXCEPT !.current_rec =
                      SetField(@, "category", Strip(Remove(line, "Category:")))]
             ELSE IF StartsWith(line, "Action:")
             THEN [st EXCEPT !.current_rec =
                      SetField(@, "action", Strip(Remove(line, "Action:")))]
             ELSE IF StartsWith(line, "Impact:")
             THEN [st EXCEPT !.current_rec =
                      SetField(@, "impact", Strip(Remove(line, "Impact:")))]
             ELSE st
        ELSE st

\* ParseLine taking a bullet line for an insight in any section
ParseLine_anysection(st, raw) ==
    LET line == Strip(raw)
    IN  IF Contains(Upper(line), "INSIGHTS:")
        THEN [st EXCEPT !.current_section = "insights"]
        ELSE IF Contains(Upper(line), "RECOMMENDATIONS:")
        THEN [st EXCEPT !.current_section = "recommendations"]
        ELSE IF StartsWith(line, "-") \/ StartsWith(line, Bullet)
        THEN IF StartsWith(line, "-") \/ StartsWith(line, Bullet)
             THEN LET insight == Strip(LStripChars(line, {"-", Bullet}))
                  IN  IF insight # ""
                      THEN [st EXCEPT !.insights = Append(@, insight)]
                      ELSE st
             ELSE st
        ELSE IF st.current_section = "recommendations"
        THEN IF StartsWith(line, "Priority:")
             THEN LET flushed ==
                        IF DOMAIN st.current_rec # {}
                        THEN [st EXCEPT !.recommendations = Append(@, st.current_rec),
                                        !.current_rec = <<>>]
                        ELSE st
                  IN  [flushed EXCEPT !.current_rec =
                          SetField(@, "priority", Strip(Remove(line, "Priority:")))]
             ELSE IF StartsWith(line, "Category:")
             THEN [st EXCEPT !.current_rec =
                      SetField(@, "category", Strip(Remove(line, "Category:")))]
             ELSE IF StartsWith(line, "Action:")
             THEN [st EXCEPT !.current_rec =
                      SetField(@, "action", Strip(Remove(line, "Action:")))]
             ELSE IF StartsWith(line, "Impact:")
             THEN [st EXCEPT !.current_rec =
                      SetField(@, "impact", Strip(Remove(line, "Impact:")))]
             ELSE st
        ELSE st

\* one pass of the loop over the lines
ParseLine(st, raw) ==
    LET line == Strip(raw)
    IN  IF Contains(Upper(line), "INSIGHTS:")
        THEN [st EXCEPT !.current_section = "insights"]
        ELSE IF Contains(Upper(line), "RECOMMENDATIONS:")
        THEN [st EXCEPT !.current_section = "recommendations"]
        ELSE IF st.current_section = "insights"
        THEN IF StartsWith(line, "-") \/ StartsWith(line, Bullet)
             THEN LET insight == Strip(LStripChars(line, {"-", Bullet}))
                  IN  IF insight # ""
                      THEN [st EXCEPT !.insights = Append(@, insight)]
                      ELSE st
             ELSE st
        ELSE IF st.current_section = "recommendations"
        THEN IF StartsWith(line, "Priority:")
             THEN LET flushed ==
                        IF DOMAIN st.current_rec # {}
                        THEN [st EXCEPT !.recommendations = Append(@, st.current_rec),
                                        !.current_rec = <<>>]
                        ELSE st
                  IN  [flushed EXCEPT !.current_rec =
                          SetField(@, "priority", Strip(Remove(line, "Priority:")))]
             ELSE IF StartsWith(line, "Category:")
             THEN [st EXCEPT !.current_rec =
                      SetField(@, "category", Strip(Remove(line, "Category:")))]
             ELSE IF StartsWith(line, "Action:")
             THEN [st EXCEPT !.current_rec =
                      SetField(@, "action", Strip(Remove(line, "Action:")))]
             ELSE IF StartsWith(line, "Impact:")
             THEN [st EXCEPT !.current_rec =
                      SetField(@, "impact", Strip(Remove(line, "Impact:")))]
             ELSE st
        ELSE st

RECURSIVE ParseLines(_, _)
ParseLines(st, lines) ==
    IF lines = <<>> THEN st
    ELSE ParseLines(ParseLine(st, Head(lines)), Tail(lines))

\* the bundle parse_insights_response returns
parse_insights_response(response_text) ==
    LET st == ParseLines(ParserStart, SplitLines(response_text))
    IN  [insights |-> st.insights,
         recommendations |-> IF DOMAIN st.current_rec # {}
                             THEN Append(st.recommendations, st.current_rec)
                             ELSE st.recommendations]

-----------------------------------------------------------------------------
(* The calendar: dates are day numbers counted from 2000-01-01 *)

DaysInMonth(year, month) ==
    IF month = 2
    THEN IF year % 4 = 0 /\ (year % 100 # 0 \/ year % 400 = 0) THEN 29 ELSE 28
    ELSE IF month \in {4, 6, 9, 11} THEN 30 ELSE 31

RECURSIVE DaysBefore(_, _)
\* the days of the year before the first of the month
DaysBefore(year, month) ==
    IF month = 1 THEN 0
    ELSE DaysBefore(year, month - 1) + DaysInMonth(year, month - 1)

\* the day number of 1 January
YearStart(year) == (year - 2000) * 365 + ((year - 2000 + 3) \div 4)

\* date.dt.year
YearOf(date) ==
    CHOOSE year \in 2000..(2000 + date \div 365) :
        YearStart(year) <= date /\ date < YearStart(year + 1)

\* df['month'] = df['date'].dt.month: the month's number, 1 to 12, without
\* the year
MonthOf(date) ==
    LET year == YearOf(date)
        rest == date - YearStart(year)
    IN  CHOOSE month \in 1..12 :
            /\ DaysBefore(year, month) <= rest
            /\ rest < DaysBefore(year, month) + DaysInMonth(year, month)

-----------------------------------------------------------------------------
(* ai_insights.py: create_financial_summary *)

\* round(num / den) for num >= 0; days / 30.44 is never half-way between
\* two integers
RoundNearest(num, den) == (2 * num + den) \div (2 * den)

\* date_range_months = max(1, round(date_range_days / 30.44)), the period
\* the page hands to the generator
DateRangeMonths(d) ==
    LET dates == {r.date : r \in Range(d.rows)}
        date_range_days == Max(dates) - Min(dates)
    IN  Max({1, RoundNearest(date_range_days * 100, 3044)})

RECURSIVE AscendingSeq(_)
\* the keys of a groupby, sorted
AscendingSeq(S) ==
    IF S = {} THEN <<>>
    ELSE <<Min(S)>> \o AscendingSeq(S \ {Min(S)})

\* df[mask], mask being the set of positions kept: in the table's order
FilterRows(rows, mask) ==
    LET kept == AscendingSeq(mask)
    IN  [k \in 1..Len(kept) |-> rows[kept[k]]]

\* over_budget_categories with the spending multiplied by the period
OverBudgetCategories_times(budget_rows, period_months) ==
    FilterRows(budget_rows,
               {i \in 1..Len(budget_rows) :
                   budget_rows[i].Spent * period_months > budget_rows[i].Budget})

\* budget_df[budget_df['Spent'] / period_months > budget_df['Budget']]
OverBudgetCategories(budget_rows, period_months) ==
    FilterRows(budget_rows,
               {i \in 1..Len(budget_rows) :
                   budget_rows[i].Spent > budget_rows[i].Budget * period_months})

\* df[df['type'] == 'Expense'].groupby('month')['abs_amount'].sum(): one
\* total per month number, in the order of the month numbers.  Every table of
\* the session has the column, whose value is the month of the row's date.
MonthlyExpenseTotals(d) ==
    LET expense_df == SelectRows(d.rows, "type", "Expense")
        keys == AscendingSeq({MonthOf(r.date) : r \in Range(expense_df)})
        InMonth(m) == FilterRows(expense_df,
                                 {i \in 1..Len(expense_df) :
                                     MonthOf(expense_df[i].date) = m})
    IN  [k \in 1..Len(keys) |->
            [month |-> keys[k], total |-> SumAbsAmount(InMonth(keys[k]))]]

\* .tail(3)
Tail3(s) == IF Len(s) <= 3 THEN s ELSE SubSeq(s, Len(s) - 2, Len(s))

\* the trend of the summary: None with fewer than 2 monthly totals, else
\* (iloc[-1] - iloc[0]) / iloc[0] * 100 as a fraction.  The totals are numpy
\* floats: on a first total of 0 the division gives inf or nan, kept here
\* as a fraction of denominator 0.
SpendingTrend(d) ==
    LET recent_months == Tail3(MonthlyExpenseTotals(d))
        first == recent_months[1]
        last == recent_months[Len(recent_months)]
    IN  IF Len(recent_months) >= 2
        THEN Frac((last.total - first.total) * 100, first.total)
        ELSE None

\* What of the summary depends on the period, the budget status and the
\* months: the period, the categories listed as over budget with the monthly
\* amount over, and the trend.
create_financial_summary(d, budget_rows, period_months) ==
    [period_months |-> period_months,
     over_budget   |->
         LET over == OverBudgetCategories(budget_rows, period_months)
         IN  [k \in 1..Len(over) |->
                 [Category |-> over[k].Category,
                  over_by  |-> Frac(over[k].Spent - over[k].Budget * period_months,
                                    period_months)]],
     trend         |-> SpendingTrend(d)]

-----------------------------------------------------------------------------
(* ai_insights.py: generate_spending_insights *)

\* the service answered with the content blocks  content  (texts)
Answers(content) == [called |-> TRUE, raised |-> FALSE, content |-> content]

\* generate_spending_insights without its try/except
generate_spending_insights_notry(key, outcome) ==
    IF key = "" THEN [raised |-> FALSE, value |-> None]
    ELSE IF outcome.raised \/ outcome.content = <<>>
    THEN [raised |-> TRUE, value |-> None]
    ELSE [raised |-> FALSE,
          value |-> parse_insights_response(Strip(outcome.content[1]))]

\* What generate_spending_insights returns, or the exception it lets through.
\* The summary it builds from the table and the budget status goes into the
\* prompt only; the answer is the service's choice.  response.content[0] raises
\* IndexError on an answer without content, inside the try.
generate_spending_insights(key, outcome) ==
    IF key = "" THEN [raised |-> FALSE, value |-> None]
    ELSE IF outcome.raised \/ outcome.content = <<>>
    THEN [raised |-> FALSE, value |-> None]
    ELSE [raised |-> FALSE,
          value |-> parse_insights_response(Strip(outcome.content[1]))]

-----------------------------------------------------------------------------
(* Inputs of the insight generator *)

ResponseLines ==
    {"INSIGHTS:", "- Eat in", Bullet \o " Save", "-", "- insights: none",
     "RECOMMENDATIONS:", "Priority: HIGH", " Category: Food", "Action: Cook",
     "Impact: 5 kr"}

RECURSIVE JoinLines(_)
JoinLines(lines) ==
    IF lines = <<>> THEN ""
    ELSE IF Len(lines) = 1 THEN lines[1]
    ELSE lines[1] \o "\n" \o JoinLines(Tail(lines))

InsightTexts == {JoinLines(l) : l \in SeqsUpTo(ResponseLines, MaxLines)}

\* what the text-completion service may do with an insight request
InsightOutcomes ==
    {[called |-> TRUE, raised |-> TRUE, content |-> <<>>], Answers(<<>>)}
    \cup {Answers(<<t>>) : t \in InsightTexts}

\* a table of one expense, a table of one income
InsightTables ==
    {t \in BudgetTables : Len(t.rows) = 1 /\ t.rows[1].category = "Other"}

\* budgets as the editor leaves them, and the empty suggestion
InsightBudgets == {[c \in {"Other"} |-> 100], <<>>}

\* lines of a recommendations section: two priorities, a category, an
\* action, an impact, a line of no recognized prefix
RecommendationLines ==
    {"Priority: HIGH", "Priority: LOW", "Category: Food", "Action: Cook",
     "Impact: 5 kr", "Note"}

\* lines of either section, the two headers, a header in lower case within
\* a sentence, a line of no recognized prefix
SectionLines ==
    {"INSIGHTS:", "RECOMMENDATIONS:", "My insights: two", "- Eat in",
     "Priority: HIGH", "Category: Food", "Note"}

\* answers that open the recommendations section and go on with up to
\* MaxRecLines of its lines, and answers of up to MaxSectionLines lines of
\* any kind
ParseTexts ==
    {JoinLines(<<"RECOMMENDATIONS:">> \o l) :
        l \in SeqsUpTo(RecommendationLines, MaxRecLines)}
    \cup {JoinLines(l) : l \in SeqsUpTo(SectionLines, MaxSectionLines)}

ParseOutcomes == {Answers(<<t>>) : t \in ParseTexts}

-----------------------------------------------------------------------------
(* The insight generator's session *)

InitInsights ==
    /\ df \in InsightTables
    /\ budgets \in InsightBudgets
    /\ budget_df = None
    /\ anthropic_api_key \in ApiKeys
    /\ insights_run = "idle"
    /\ ai_insights = None
    /\ IdleReports
    /\ categorized = TRUE
    /\ page = None
    /\ IdleCat
    /\ IdleRecurring
    /\ IdleIngest

\* "Generate AI Insights": the budget status is computed, the generator is
\* called with it and its value is stored.  The page offers the button only
\* with a key; the generator repeats the test, and is applied here to either.
\* One request per behaviour: the generator keeps nothing between requests.
GenerateFrom(outcomes) ==
    /\ insights_run = "idle"
    /\ \E status \in get_budget_status(Expenses(df), budgets) :
         /\ budget_df' = status
         /\ IF status.raised
            THEN /\ insights_run' = "raised"
                 /\ UNCHANGED <<response, ai_insights>>
            ELSE \E outcome \in (IF anthropic_api_key = "" THEN {NoCall}
                                 ELSE outcomes) :
                   LET r == generate_spending_insights(anthropic_api_key, outcome)
                   IN  /\ response' = outcome
                       /\ insights_run' = IF r.raised THEN "raised" ELSE "returned"
                       /\ ai_insights' = IF r.raised THEN ai_insights ELSE r.value
         /\ summary' = IF status.raised \/ anthropic_api_key = "" THEN summary
                        ELSE create_financial_summary(df, status.rows,
                                                      DateRangeMonths(df))
    /\ UNCHANGED <<df, mode, prompt, cat_error, budgets, min_occurrences,
                   recurring_df, anthropic_api_key>>
    /\ UNCHANGED ingest_vars
    /\ UNCHANGED <<totals, categorized, page>>

GenerateInsights == GenerateFrom(InsightOutcomes)

NextInsights == GenerateInsights

SpecInsights == InitInsights /\ [][NextInsights]_vars

\* the days of the summary's tables: 5 January, 7 October, 6 November and
\* 6 December 2000, 5 January 2001
SummaryDays == {4, 280, 310, 340, 370}

\* the most rows of a table handed to the summary
MaxSummaryRows == 4

\* an expense of 50 kr or 100 kr of one category, or of 50 kr of the other
SummaryRowInputs ==
    {SetField(MakeRow(0, "", -50), "category", c) : c \in BudgetCategories}
    \cup {SetField(MakeRow(0, "", -100), "category", "Other")}

\* categorized tables of one row a day, date descending
SummaryTables ==
    {[columns |-> BaseColumns \cup {"category"},
      rows |-> [i \in 1..Len(rows) |->
                  [rows[i] EXCEPT !.date = AscendingSeq(days)[Len(rows) + 1 - i]]]] :
        <<days, rows>> \in
            UNION {(({D \in SUBSET SummaryDays : Cardinality(D) = n})
                      \X SeqsOfLen(SummaryRowInputs, n)) : n \in 1..MaxSummaryRows}}

\* a budget for either category
SummaryBudgets == [BudgetCategories -> BudgetValues]

\* a session with a key, expenses of several months and budgets for them
InitSummary ==
    /\ df \in SummaryTables
    /\ budgets \in SummaryBudgets
    /\ budget_df = None
    /\ anthropic_api_key = "sk-ant"
    /\ insights_run = "idle"
    /\ ai_insights = None
    /\ IdleReports
    /\ categorized = TRUE
    /\ page = None
    /\ IdleCat
    /\ IdleRecurring
    /\ IdleIngest

\* the service answers with a text
SummaryOutcomes == {Answers(<<"INSIGHTS:\n- Eat in">>)}

GenerateSummary == GenerateFrom(SummaryOutcomes)

NextSummary == GenerateSummary

\* insight requests on tables that span months and years
SpecSummary == InitSummary /\ [][NextSummary]_vars

\* a session with a key, one expense and its budget, for the answers of
\* ParseOutcomes
InitParse ==
    /\ InitInsights
    /\ anthropic_api_key # ""
    /\ df.rows[1].type = "Expense"
    /\ budgets # <<>>

GenerateParse == GenerateFrom(ParseOutcomes)

NextParse == GenerateParse

\* insight requests whose answers exercise the parser's sections
SpecParse == InitParse /\ [][NextParse]_vars

-----------------------------------------------------------------------------
(* data_processor.py: calculate_summary_stats *)

\* df[df['amount'] > 0]['amount'].sum()
TotalIncome(rows) ==
    Sum(Column(SelectSeq(rows, LAMBDA r : r.amount > 0), "amount"))

\* df[df['amount'] < 0]['amount'].abs().sum()
TotalExpenses(rows) ==
    Sum(Column(SelectSeq(rows, LAMBDA r : r.amount < 0), "abs_amount"))

\* calculate_summary_stats with the savings rate divided out unguarded
calculate_summary_stats_unguarded(d) ==
    LET total_income == TotalIncome(d.rows)
        total_expenses == TotalExpenses(d.rows)
        net_savings == total_income - total_expenses
    IN  [total_income     |-> total_income,
         total_expenses   |-> total_expenses,
         net_savings      |-> net_savings,
         avg_transaction  |-> Frac(SumAbsAmount(d.rows), Len(d.rows)),
         num_transactions |-> Len(d.rows),
         savings_rate     |-> Frac(net_savings * 100, total_income)]

\* calculate_summary_stats; the mean of no row is nan, a fraction over 0
calculate_summary_stats(d) ==
    LET total_income == TotalIncome(d.rows)
        total_expenses == TotalExpenses(d.rows)
        net_savings == total_income - total_expenses
    IN  [total_income     |-> total_income,
         total_expenses   |-> total_expenses,
         net_savings      |-> net_savings,
         avg_transaction  |-> Frac(SumAbsAmount(d.rows), Len(d.rows)),
         num_transactions |-> Len(d.rows),
         savings_rate     |-> IF total_income > 0
                              THEN Frac(net_savings * 100, total_income)
                              ELSE Frac(0, 1)]

-----------------------------------------------------------------------------
(* The analysis of one table: summary, budget status, recurring payments *)

AnalysisAmounts == {0, -139, 139}

\* two or three transactions of one description, 30 days apart, alone or
\* with an older expense of its category
AnalysisTables ==
    {[columns |-> BaseColumns \cup {"category"},
      rows |-> Reverse(Occurrences("Netflix", a, Repeat(30, Len(a) - 1))) \o o] :
        a \in SeqsOfLen(AnalysisAmounts, 2) \cup SeqsOfLen(AnalysisAmounts, 3),
        o \in {<<>>, <<RecurringRow(-5, "Cinema", -139)>>}}

AnalysisBudgets ==
    {[c \in {RuleCategory["Netflix"]} |-> v] : v \in BudgetValues}

InitAnalysis ==
    /\ df = None
    /\ budgets \in AnalysisBudgets
    /\ budget_df = None
    /\ min_occurrences \in MinOccLow..MinOccHigh
    /\ recurring_df = None
    /\ IdleCat
    /\ IdleIngest
    /\ IdleInsights
    /\ IdleReports
    /\ IdlePage

LoadAnalysis ==
    /\ df = None
    /\ \E t \in AnalysisTables : df' = t /\ categorized' = ("category" \in t.columns)
    /\ UNCHANGED <<mode, response, prompt, cat_error, budgets, budget_df,
                   min_occurrences, recurring_df>>
    /\ UNCHANGED <<ingest_vars, insight_vars>>
    /\ UNCHANGED <<totals, summary, page>>

\* stats = calculate_summary_stats(df)
SummaryStats ==
    /\ df # None
    /\ stats' = calculate_summary_stats(df)
    /\ UNCHANGED <<df, mode, response, prompt, cat_error, budgets, budget_df,
                   min_occurrences, recurring_df, uploaded_file, load_error,
                   last_load>>
    /\ UNCHANGED insight_vars
    /\ UNCHANGED <<totals, summary, categorized, page>>

NextAnalysis ==
    LoadAnalysis \/ SummaryStats \/ BudgetOverview \/ DetectRecurring

SpecAnalysis == InitAnalysis /\ [][NextAnalysis]_vars

-----------------------------------------------------------------------------
(* data_processor.py: the cells of a file *)

RECURSIVE SplitOn(_, _)
\* the fields of a line between the occurrences of the one-character sep
SplitOn(s, sep) ==
    IF \E i \in 1..Len(s) : SubSeq(s, i, i) = sep
    THEN LET i == Min({j \in 1..Len(s) : SubSeq(s, j, j) = sep})
         IN  <<SubSeq(s, 1, i - 1)>> \o SplitOn(SubSeq(s, i + 1, Len(s)), sep)
    ELSE <<s>>

DigitChars == "0123456789"

IsDigits(s) ==
    /\ s # ""
    /\ \A i \in 1..Len(s) :
         \E v \in 1..10 : SubSeq(DigitChars, v, v) = SubSeq(s, i, i)

RECURSIVE DigitsValue(_)
DigitsValue(s) ==
    IF s = "" THEN 0
    ELSE LET c == SubSeq(s, Len(s), Len(s))
             v == CHOOSE w \in 1..10 : SubSeq(DigitChars, w, w) = c
         IN  10 * DigitsValue(SubSeq(s, 1, Len(s) - 1)) + (v - 1)

\* the not-a-number, not-a-time and missing value of a parsed cell
NaN == [ok |-> FALSE, value |-> 0]

\* Amounts are held in tenths.  A number is an optional sign, digits, and
\* optionally the decimal character and one more digit; numbers of more
\* decimals are outside the model's files.
ParseNumber(text, decimal) ==
    LET negative == StartsWith(text, "-")
        body == IF negative THEN SubSeq(text, 2, Len(text)) ELSE text
        parts == SplitOn(body, decimal)
        whole == parts[1]
        magnitude ==
            IF Len(parts) = 1 /\ IsDigits(whole)
            THEN [ok |-> TRUE, value |-> 10 * DigitsValue(whole)]
            ELSE IF Len(parts) = 2 /\ IsDigits(whole) /\ IsDigits(parts[2])
                    /\ Len(parts[2]) = 1
            THEN [ok |-> TRUE, value |-> 10 * DigitsValue(whole) + DigitsValue(parts[2])]
            ELSE NaN
    IN  IF magnitude.ok /\ negative
        THEN [ok |-> TRUE, value |-> -magnitude.value]
        ELSE magnitude

\* the day number of a date YYYY-MM-DD, counted from 2000-01-01; any other
\* text is not a time.  The model's files write dates in this one layout.
ParseDate(text) ==
    IF /\ Len(text) = 10
       /\ SubSeq(text, 5, 5) = "-"
       /\ SubSeq(text, 8, 8) = "-"
       /\ IsDigits(SubSeq(text, 1, 4))
       /\ IsDigits(SubSeq(text, 6, 7))
       /\ IsDigits(SubSeq(text, 9, 10))
    THEN LET year == DigitsValue(SubSeq(text, 1, 4))
             month == DigitsValue(SubSeq(text, 6, 7))
             day == DigitsValue(SubSeq(text, 9, 10))
         IN  IF /\ year >= 2000
                /\ month \in 1..12
                /\ day \in 1..DaysInMonth(year, month)
             THEN [ok |-> TRUE,
                   value |-> (year - 2000) * 365 + ((year - 2000 + 3) \div 4)
                             + DaysBefore(year, month) + (day - 1)]
             ELSE NaN
    ELSE NaN

\* texts that pd.read_csv reads as a missing value (some of its defaults)
NAStrings == {"", "NA", "N/A", "NaN", "null"}

\* a cell of a table as read: missing, or its text
Cell(text) == [na |-> text \in NAStrings, text |-> text]

MissingCell == [na |-> TRUE, text |-> ""]

-----------------------------------------------------------------------------
(* data_processor.py: reading a file *)

\* pd.read_csv(file, sep=sep, decimal=decimal) on the lines of a file: the
\* first line is the header, blank lines are skipped, a short row is filled
\* with missing cells.  It raises on a file without a line and on a row of
\* more fields than the rows before it; a first row of more fields than the
\* header gives its leading fields to the index.  tokens keeps the cells as
\* read: which of them become numbers is settled per column (ToNumeric).
read_csv(lines, sep, decimal) ==
    LET Table(header, data) ==
            LET width == IF Len(data) > 0 /\ Len(data[1]) > Len(header)
                         THEN Len(data[1]) ELSE Len(header)
                leading == width - Len(header)
            IN  IF \E i \in 1..Len(data) : Len(data[i]) > width
                THEN [raised |-> TRUE, e |-> "Error tokenizing data"]
                ELSE [raised  |-> FALSE,
                      columns |-> header,
                      decimal |-> decimal,
                      tokens  |-> [i \in 1..Len(data) |->
                                    [k \in 1..Len(header) |->
                                       IF leading + k <= Len(data[i])
                                       THEN Cell(data[i][leading + k])
                                       ELSE MissingCell]]]
        present == SelectSeq(lines, LAMBDA l : l # "")
    IN  IF present = <<>>
        THEN [raised |-> TRUE, e |-> "No columns to parse from file"]
        ELSE CHOOSE t \in {Table(fields[1], Tail(fields)) :
                             fields \in {[i \in 1..Len(present) |->
                                            SplitOn(present[i], sep)]}} : TRUE

\* the strategies of the loader, in the order it tries them
StrategyA == [strategy |-> "a", sep |-> ";", decimal |-> ","]
StrategyB == [strategy |-> "b", sep |-> ",", decimal |-> "."]
StrategyC == [strategy |-> "c", sep |-> ",", decimal |-> "."]

\* a strategy's read, and whether the loader takes it
Attempt(lines, s, min_columns) ==
    LET t == read_csv(lines, s.sep, s.decimal)
    IN  [strategy |-> s.strategy,
         ok       |-> ~t.raised /\ Len(t.columns) >= min_columns,
         table    |-> t]

\* ReadStrategies taking the first strategy's table whatever its width
ReadStrategies_anywidth(lines) ==
    LET a == Attempt(lines, StrategyA, 0)
        b == Attempt(lines, StrategyB, 0)
        c == Attempt(lines, StrategyC, 0)
    IN  IF a.ok THEN <<a>>
        ELSE IF b.ok THEN <<a, b>>
        ELSE <<a, b, c>>

\* the nested try/except of the loader: the attempts made, the last one's
\* table being the one used, or the one whose exception goes out
ReadStrategies(lines) ==
    LET a == Attempt(lines, StrategyA, 2)
        b == Attempt(lines, StrategyB, 0)
        c == Attempt(lines, StrategyC, 0)
    IN  IF a.ok THEN <<a>>
        ELSE IF b.ok THEN <<a, b>>
        ELSE <<a, b, c>>

\* pd.read_excel(file): the rows of the first sheet, written one per line
\* with a tab between cells; it raises on a file that is not a workbook
read_excel(file) ==
    IF ~file.workbook
    THEN [raised |-> TRUE, e |-> "File is not a zip file"]
    ELSE IF file.lines = <<>>
    THEN [raised |-> FALSE, columns |-> <<>>, decimal |-> ".", tokens |-> <<>>]
    ELSE read_csv(file.lines, "\t", ".")

EndsWith(s, suffix) ==
    Len(s) >= Len(suffix) /\ SubSeq(s, Len(s) - Len(suffix) + 1, Len(s)) = suffix

column_mapping ==
    [datum |-> "date", beskrivning |-> "description", belopp |-> "amount",
     konto |-> "account"]

\* NormalizeColumn without the alias mapping
NormalizeColumn_noalias(name) == Strip(Lower(name))

\* df.columns.str.lower().str.strip(), then df.rename(columns=column_mapping)
NormalizeColumn(name) ==
    LET plain == Strip(Lower(name))
    IN  IF plain \in DOMAIN column_mapping THEN column_mapping[plain] ELSE plain

required_columns == <<"date", "description", "amount">>

RECURSIVE JoinWith(_, _)
\* sep.join(pieces)
JoinWith(pieces, sep) ==
    IF pieces = <<>> THEN ""
    ELSE IF Len(pieces) = 1 THEN pieces[1]
    ELSE pieces[1] \o sep \o JoinWith(Tail(pieces), sep)

\* the position of the column called name
ColumnIndex(columns, name) == Min({k \in 1..Len(columns) : columns[k] = name})

\* The amount of row i.  read_csv makes a column numeric when each of its
\* cells that is not missing is a number in the file's decimal convention;
\* otherwise the cells stay text and pd.to_numeric(errors='coerce') reads each
\* one by itself, with the period as the decimal character.
ToNumeric(tokens, k, i, decimal) ==
    LET numeric_column ==
            \A j \in 1..Len(tokens) :
                tokens[j][k].na \/ ParseNumber(tokens[j][k].text, decimal).ok
    IN  IF tokens[i][k].na THEN NaN
        ELSE IF numeric_column THEN ParseNumber(tokens[i][k].text, decimal)
        ELSE ParseNumber(tokens[i][k].text, ".")

\* pd.to_datetime(errors='coerce') on the cell of row i
ToDatetime(tokens, k, i) ==
    IF tokens[i][k].na THEN NaN ELSE ParseDate(tokens[i][k].text)

\* the orders sort_values('date', ascending=False) may leave the rows in
SortedByDate(rows) ==
    {s \in [1..Len(rows) -> 1..Len(rows)] :
        /\ \A i, j \in 1..Len(rows) : i # j => s[i] # s[j]
        /\ \A i, j \in 1..Len(rows) :
             i < j => rows[s[i]].date >= rows[s[j]].date}

\* The outcomes of process_transactions on a table as read, its columns
\* already renamed: the rows with a date, an amount and a description, by
\* date descending.  With two columns named date, df['date'] is a table and
\* to_datetime raises; likewise to_numeric with two columns named amount;
\* with two named description, dropna looks at both.
process_transactions(columns, tokens, decimal) ==
    LET Columns(name) == {k \in 1..Len(columns) : columns[k] = name}
    IN
    IF Cardinality(Columns("date")) > 1
    THEN {[raised |-> TRUE, e |-> "to assemble mappings requires at least that [year, month, day] be specified"]}
    ELSE IF Cardinality(Columns("amount")) > 1
    THEN {[raised |-> TRUE, e |-> "arg must be a list, tuple, 1-d array, or Series"]}
    ELSE LET kd == ColumnIndex(columns, "date")
             kt == ColumnIndex(columns, "description")
             ka == ColumnIndex(columns, "amount")
             converted == [i \in 1..Len(tokens) |->
                             [date        |-> ToDatetime(tokens, kd, i),
                              amount      |-> ToNumeric(tokens, ka, i, decimal),
                              description |-> tokens[i][kt],
                              na          |-> \E k \in Columns("description") :
                                                 tokens[i][k].na]]
             Kept(c) == SelectSeq(c, LAMBDA r : /\ r.date.ok
                                                /\ r.amount.ok
                                                /\ ~r.na)
             Rows(kept) == [n \in 1..Len(kept) |->
                              MakeRow(kept[n].date.value,
                                      kept[n].description.text,
                                      kept[n].amount.value)]
         IN  {[raised |-> FALSE,
               df |-> [columns |-> Range(columns) \cup BaseColumns,
                       rows |-> [n \in 1..Len(sorted.rows) |->
                                   sorted.rows[sorted.order[n]]]]] :
                  sorted \in UNION {{[rows |-> rows, order |-> s] :
                                        s \in SortedByDate(rows)} :
                                    rows \in {Rows(Kept(c)) : c \in {converted}}}}

\* an error message, as the second component of the loader's result
Message(text) == [message |-> text]

\* The body the two loaders share, csv and excel telling the branch taken:
\* the outcomes (df, error), and the parse strategies tried on the way.
LoadFile(file, csv, excel) ==
    LET Result(attempts, read) ==
            LET columns == [k \in 1..Len(read.columns) |->
                               NormalizeColumn(read.columns[k])]
                missing_columns ==
                    SelectSeq(required_columns,
                              LAMBDA col : col \notin Range(columns))
            IN  IF read.raised
                THEN {[df |-> None, attempts |-> attempts,
                       error |-> Message("Error loading file: " \o read.e)]}
                ELSE IF missing_columns # <<>>
                THEN {[df |-> None, attempts |-> attempts,
                       error |-> Message("Missing required columns: "
                                             \o JoinWith(missing_columns, ", "))]}
                ELSE {IF p.raised
                      THEN [df |-> None, attempts |-> attempts,
                            error |-> Message("Error loading file: " \o p.e)]
                      ELSE [df |-> p.df, attempts |-> attempts, error |-> None] :
                         p \in UNION {process_transactions(c, read.tokens, read.decimal) :
                                         c \in {columns}}}
    IN  IF csv
        THEN UNION {Result(attempts, attempts[Len(attempts)].table) :
                       attempts \in {ReadStrategies(file.lines)}}
        ELSE IF excel
        THEN UNION {Result(<<>>, read) : read \in {read_excel(file)}}
        ELSE {[df |-> None, attempts |-> <<>>,
               error |-> Message("Unsupported file format. Please upload CSV or Excel file.")]}

load_transaction_file(file) ==
    LoadFile(file, EndsWith(file.name, ".csv"),
             EndsWith(file.name, ".xlsx") \/ EndsWith(file.name, ".xls"))

\* load_csv_file(filepath), file being what the path holds
load_csv_file(file) == LoadFile(file, TRUE, FALSE)

-----------------------------------------------------------------------------
(* Inputs of ingestion *)

File(name, workbook, lines) == [name |-> name, workbook |-> workbook, lines |-> lines]

SemicolonHeaders ==
    {"date;description;amount", "Datum;Beskrivning;Belopp;Konto",
     " Date ;DESCRIPTION; Amount"}

\* rows in the semicolon / decimal-comma convention: a decimal amount, an
\* integer amount, a date that is none, an amount that is none, no
\* description, an amount of 0, a row that stops short of the amount
SemicolonRows ==
    {"2024-01-31;ICA;-12,5", "2024-03-01;Lön;45000", "soon;ICA;-1",
     "2024-02-01;ICA;abc", "2024-02-01;;-5", "2024-02-15;Gym;0",
     "2024-02-01;ICA"}

SemicolonFiles ==
    {File("t.csv", FALSE, <<h>> \o rows) :
        h \in SemicolonHeaders, rows \in SeqsUpTo(SemicolonRows, MaxFileRows)}

CommaRows == {"2024-01-31,ICA,-12.5", "2024-03-01,Salary,45000", "2024-02-01,ICA,abc"}

CommaFiles ==
    {File("t.csv", FALSE, <<"date,description,amount">> \o rows) :
        rows \in SeqsUpTo(CommaRows, 2)}

\* files that lack a required column
LackingFiles ==
    {File("t.csv", FALSE, lines) :
        lines \in {<<"date;amount">>, <<"date;amount", "2024-02-01;-5">>,
                   <<"datum;text">>, <<"beskrivning;konto">>,
                   <<"Date,Amount">>, <<"Konto">>, <<" BELOPP ">>}}

\* files with the date or the amount under two names
DoubledFiles ==
    {File("t.csv", FALSE, lines) :
        lines \in {<<"date;datum;description;amount", "2024-02-01;2024-02-01;ICA;-5">>,
                   <<"date;description;amount;belopp", "2024-02-01;ICA;-5;-5">>}}

\* the empty file, files with a row longer than the rows before it, other
\* names, a workbook and a file that only bears a workbook's name
OtherFiles ==
    {File("t.csv", FALSE, <<>>),
     File("t.csv", FALSE, <<"date;description;amount", "2024-02-15;Gym;0",
                            "2024-02-15;Gym;0;x">>),
     File("t.csv", FALSE, <<"date,description,amount", "2024-03-01,Salary,45000",
                            "2024-03-01,Salary,45000,x">>),
     File("T.CSV", FALSE, <<"date;description;amount", "2024-02-15;Gym;0">>),
     File("t.xlsx", TRUE, <<"Datum\tBeskrivning\tBelopp", "2024-02-15\tGym\t-5">>),
     File("t.xlsx", TRUE, <<"Datum\tBelopp", "2024-02-15\t-5">>),
     File("t.xls", FALSE, <<"date;description;amount">>)}

Files ==
    SemicolonFiles \cup CommaFiles \cup LackingFiles \cup DoubledFiles \cup OtherFiles

\* what data/sample_transactions.csv may hold
SampleFiles ==
    {File("data/sample_transactions.csv", FALSE,
          <<"date,description,amount", "2024-03-01,Salary,45000",
            "2024-01-31,ICA,-12.5">>),
     File("data/sample_transactions.csv", FALSE,
          <<"Datum;Beskrivning;Belopp", "2024-01-31;ICA;-12,5">>)}

-----------------------------------------------------------------------------
(* The ingestion session *)

InitIngest ==
    /\ df = None
    /\ IdleIngest
    /\ IdleCat
    /\ IdleBudget
    /\ IdleRecurring
    /\ IdleInsights
    /\ IdleReports
    /\ IdlePage

\* what a load leaves in the session: a table replaces the session's table,
\* an error is shown and the session's table stays
Loaded(file, r) ==
    /\ last_load' = [file |-> file, attempts |-> r.attempts,
                     df |-> r.df, error |-> r.error]
    /\ load_error' = r.error
    /\ df' = IF r.error = None THEN r.df ELSE df
    /\ categorized' = (categorized /\ r.error # None)

\* a file is put into the uploader and the page loads it
Upload ==
    /\ uploaded_file = None
    /\ \E file \in Files :
         /\ uploaded_file' = file
         /\ \E r \in load_transaction_file(file) : Loaded(file, r)
    /\ UNCHANGED <<mode, response, prompt, cat_error, budgets, budget_df,
                   min_occurrences, recurring_df, stats>>
    /\ UNCHANGED insight_vars
    /\ UNCHANGED <<totals, summary, page>>

\* "Load Sample Data", with no file in the uploader
LoadSampleData ==
    /\ uploaded_file = None
    /\ \E file \in SampleFiles :
         \E r \in load_csv_file(file) : Loaded(file, r)
    /\ UNCHANGED <<mode, response, prompt, cat_error, budgets, budget_df,
                   min_occurrences, recurring_df, uploaded_file, stats>>
    /\ UNCHANGED insight_vars
    /\ UNCHANGED <<totals, summary, page>>

NextIngest == Upload \/ LoadSampleData

SpecIngest == InitIngest /\ [][NextIngest]_vars

-----------------------------------------------------------------------------
(* app.py: the page.  Every interaction runs the script from the top. *)

\* files put into the uploader: three monthly payments of one subscription,
\* and a file without an amount
AppFiles ==
    {File("t.csv", FALSE,
          <<"date;description;amount", "2024-01-01;Netflix;-139",
            "2024-01-31;Netflix;-139", "2024-03-01;Netflix;-139">>),
     File("t.csv", FALSE, <<"date;description">>)}

\* data/sample_transactions.csv: three monthly purchases
AppSampleFiles ==
    {File("data/sample_transactions.csv", FALSE,
          <<"date,description,amount", "2024-01-31,ICA,-450",
            "2024-03-01,ICA,-450", "2024-03-31,ICA,-450">>)}

\* what the service answers to an insight request: a text, or nothing
AppOutcomes ==
    {Answers(<<"INSIGHTS:\n- Eat in">>),
     [called |-> TRUE, raised |-> TRUE, content |-> <<>>]}

\* the budgets of the session
AppBudgets == {[c \in {"Food & Groceries"} |-> 100]}

\* load_transaction_file on the files of the uploader and load_csv_file on
\* the sample, worked out once
UploadResults == [file \in AppFiles |-> load_transaction_file(file)]

SampleResults == [file \in AppSampleFiles |-> load_csv_file(file)]

\* the session after one load: a table replaces the session's table and
\* categorized is reset, an error leaves both
AfterLoad(cur, file, r) ==
    LET load == [file |-> file, attempts |-> r.attempts, df |-> r.df, error |-> r.error]
    IN  IF r.error = None
        THEN [df |-> r.df, categorized |-> FALSE, load_error |-> None, last_load |-> load]
        ELSE [cur EXCEPT !.load_error = r.error, !.last_load = load]

\* if st.sidebar.button("Load Sample Data"): ...
SampleLoaded(cur, click) ==
    IF click = "sample"
    THEN {AfterLoad(cur, file, r) :
             <<file, r>> \in UNION {{file} \X SampleResults[file] : file \in AppSampleFiles}}
    ELSE {cur}

\* if uploaded_file is not None: ...
UploadLoaded(cur, file) ==
    IF file # None
    THEN {AfterLoad(cur, file, r) : r \in UploadResults[file]}
    ELSE {cur}

\* the top of the script: the sample button, then the uploader's file
Loads(cur, click, file) ==
    UNION {UploadLoaded(c, file) : c \in SampleLoaded(cur, click)}

\* the welcome screen, before st.stop()
Welcome(click) ==
    [view |-> "welcome", trigger |-> click, categorized |-> FALSE,
     columns |-> {}, sections |-> {}, recurring |-> None, insights |-> None]

\* The script from "df = st.session_state.df" on, for a session s that has a
\* table: the summary metrics, and with categorized set the budget overview,
\* the recurring section and, with a key, the insight section.  A click on
\* Detect or Generate is handled in its section; what the session holds is
\* displayed.
Render(s, click) ==
    /\ stats' = calculate_summary_stats(s.df)
    /\ IF ~s.categorized
       THEN /\ UNCHANGED <<budget_df, recurring_df, totals, summary,
                           insights_run, ai_insights>>
            /\ response' = IF click = "categorize" THEN NoCall ELSE response
            /\ page' = [view |-> "dashboard", trigger |-> click,
                        categorized |-> FALSE, columns |-> s.df.columns,
                        sections |-> {}, recurring |-> None, insights |-> None]
       ELSE \E status \in get_budget_status(Expenses(s.df), budgets),
               rec \in (IF click = "detect"
                        THEN detect_recurring_payments(s.df, min_occurrences)
                        ELSE {recurring_df}),
               outcome \in (IF click = "generate" /\ anthropic_api_key # ""
                            THEN AppOutcomes ELSE {NoCall}) :
              LET r == generate_spending_insights(anthropic_api_key, outcome)
                  generated == outcome # NoCall
                  insights == IF generated THEN r.value ELSE ai_insights
                  shown == anthropic_api_key # "" /\ insights # None
              IN  /\ budget_df' = status
                  /\ recurring_df' = rec
                  /\ totals' = IF rec # None /\ rec.rows # <<>>
                               THEN calculate_recurring_totals(rec) ELSE totals
                  /\ summary' = IF generated
                                THEN create_financial_summary(s.df, status.rows,
                                                              DateRangeMonths(s.df))
                                ELSE summary
                  /\ insights_run' = IF generated THEN "returned" ELSE insights_run
                  /\ ai_insights' = insights
                  /\ response' = IF generated THEN outcome
                                 ELSE IF click = "categorize" THEN NoCall
                                 ELSE response
                  /\ page' = [view |-> "dashboard", trigger |-> click,
                              categorized |-> TRUE, columns |-> s.df.columns,
                              sections |-> {"budget", "recurring"}
                                           \cup (IF anthropic_api_key # ""
                                                 THEN {"insights"} ELSE {}),
                              recurring |-> rec,
                              insights |-> IF shown THEN insights ELSE None]

\* One run of the script after an interaction: file is what the uploader
\* returns, click the button pressed, if any.  "Categorize Transactions"
\* (the checkbox "Use AI Categorization" as it starts, unticked) stores the
\* categorized table, sets categorized and calls st.rerun(): the script
\* starts again from the top, with no button pressed and the same file in
\* the uploader, and that run is the one rendered.
ScriptRun(file, click) ==
    /\ uploaded_file' = file
    /\ \E first \in Loads([df |-> df, categorized |-> categorized,
                           load_error |-> None, last_load |-> last_load],
                          click, file) :
         \E s \in (IF first.df # None /\ click = "categorize"
                   THEN Loads([first EXCEPT
                                 !.df = categorize_transactions_bulk(
                                            first.df, FALSE, "", NoCall).df,
                                 !.categorized = TRUE,
                                 !.load_error = None],
                              "rerun", file)
                   ELSE {first}) :
            /\ df' = s.df
            /\ categorized' = s.categorized
            /\ load_error' = s.load_error
            /\ last_load' = s.last_load
            /\ IF s.df = None
               THEN /\ page' = Welcome(click)
                    /\ UNCHANGED <<stats, budget_df, recurring_df, totals, summary,
                                   insights_run, ai_insights, response>>
               ELSE Render(s, click)
    /\ mode' = IF click = "categorize" THEN "rule" ELSE mode
    /\ prompt' = IF click = "categorize" THEN <<>> ELSE prompt
    /\ cat_error' = IF click = "categorize" THEN FALSE ELSE cat_error
    /\ UNCHANGED <<budgets, min_occurrences, anthropic_api_key>>

\* the page is opened
InitApp ==
    /\ df = None
    /\ IdleIngest
    /\ IdleCat
    /\ budgets \in AppBudgets
    /\ budget_df = None
    /\ IdleRecurring
    /\ anthropic_api_key = "sk-ant"
    /\ insights_run = "idle"
    /\ ai_insights = None
    /\ IdleReports
    /\ IdlePage

\* a file is put into the uploader
AppUpload == \E file \in AppFiles : ScriptRun(file, "upload")

\* the file is taken out of the uploader
AppRemoveFile == uploaded_file # None /\ ScriptRun(None, "remove")

AppLoadSample == ScriptRun(uploaded_file, "sample")

\* the buttons of the dashboard are there once the page has rendered them
AppCategorize ==
    /\ page # None
    /\ page.view = "dashboard"
    /\ ScriptRun(uploaded_file, "categorize")

AppDetect ==
    /\ page # None
    /\ "recurring" \in page.sections
    /\ ScriptRun(uploaded_file, "detect")

AppGenerate ==
    /\ page # None
    /\ "insights" \in page.sections
    /\ ScriptRun(uploaded_file, "generate")

NextApp ==
    \/ AppUpload
    \/ AppRemoveFile
    \/ AppLoadSample
    \/ AppCategorize
    \/ AppDetect
    \/ AppGenerate

\* a session of the page
SpecApp == InitApp /\ [][NextApp]_vars

-----------------------------------------------------------------------------
(* Properties of the categorizer *)

CategoryNames == {DEFAULT_CATEGORIES[c].category : c \in 1..Len(DEFAULT_CATEGORIES)}

\* the categories one of whose keywords occurs, case-insensitively, in d
HitCategories(d) ==
    {c \in 1..Len(DEFAULT_CATEGORIES) :
        \E k \in 1..Len(DEFAULT_CATEGORIES[c].keywords) :
            Contains(Lower(d), Lower(DEFAULT_CATEGORIES[c].keywords[k]))}

Categorized == df # None /\ "category" \in df.columns

\* C1: rule-based categorization is total: every transaction gets exactly one
\* category, a key of the category->keywords mapping or 'Other', and it is
\* 'Other' whenever no keyword of any category occurs in the description.
C1_Totality ==
    mode = "rule" =>
        /\ Categorized
        /\ ~cat_error
        /\ \A i \in 1..Len(df.rows) :
             /\ "category" \in DOMAIN df.rows[i]
             /\ df.rows[i].category \in CategoryNames \cup {"Other"}
             /\ HitCategories(df.rows[i].description) = {}
                    => df.rows[i].category = "Other"

C1_Witness ==
    /\ mode = "rule"
    /\ Categorized
    /\ \E i \in 1..Len(df.rows) :
         /\ df.rows[i].description = "xyz In"
         /\ HitCategories(df.rows[i].description) = {}
         /\ df.rows[i].category = "Other"

\* C2: rule-based categorization returns the first category, in the declared
\* order of the mapping, that has a keyword occurring in the description; a
\* later category never wins when an earlier one matches.  'ICA Supermarket'
\* yields 'Food & Groceries' and 'Salary Deposit' yields 'Income'.
C2_FirstMatchWins ==
    (mode = "rule" /\ Categorized) =>
        \A i \in 1..Len(df.rows) :
            LET d == df.rows[i].description
                hits == HitCategories(d)
            IN  /\ hits # {} =>
                     df.rows[i].category = DEFAULT_CATEGORIES[Min(hits)].category
                /\ d = "ICA Supermarket" => df.rows[i].category = "Food & Groceries"
                /\ d = "Salary Deposit" => df.rows[i].category = "Income"

C2_Witness ==
    /\ mode = "rule"
    /\ Categorized
    /\ \E i \in 1..Len(df.rows) :
         /\ df.rows[i].description = "gas ICA"
         /\ Cardinality(HitCategories(df.rows[i].description)) >= 2
         /\ df.rows[i].category = "Food & Groceries"

\* C3: in AI-assisted mode, for a response of k comma-separated labels and a
\* table of n transactions, the result has exactly n categories in transaction
\* order: position i <= min(k, n) holds the i-th returned label and every
\* position i > k holds the rule-based category of transaction i's
\* description; a shortfall never causes a failure.
C3_ShortfallFilled ==
    (mode = "ai" /\ ~response.raised) =>
        LET labels == ParseLabels(response.text)
            k == Len(labels)
            n == Len(df.rows)
        IN  /\ ~cat_error
            /\ Categorized
            /\ \A i \in 1..n :
                 /\ "category" \in DOMAIN df.rows[i]
                 /\ i <= k => df.rows[i].category = labels[i]
                 /\ i > k => df.rows[i].category =
                                 DEFAULT_CATEGORIES[
                                     Min(HitCategories(df.rows[i].description)
                                         \cup {Len(DEFAULT_CATEGORIES)})].category

C3_Witness ==
    /\ mode = "ai"
    /\ ~response.raised
    /\ Categorized
    /\ Len(ParseLabels(response.text)) = 1
    /\ Len(df.rows) = 3
    /\ df.rows[1].category = "Dining Out"
    /\ df.rows[2].description = "Salary Deposit"
    /\ df.rows[2].category = "Income"
    /\ df.rows[3].description = "ICA Supermarket"
    /\ df.rows[3].category = "Food & Groceries"

\* C4: if the text-completion call raises, every transaction of the table
\* gets its rule-based category, the result equals what rule-based mode
\* produces from the same table, and no error reaches the caller.
C4_FailureFallsBack ==
    [][(mode' = "ai" /\ response'.raised) =>
          /\ ~cat_error'
          /\ df' = categorize_transactions_bulk(df, FALSE, "", NoCall).df
          /\ \A i \in 1..Len(df'.rows) :
               df'.rows[i].category =
                   categorize_transaction_simple(df.rows[i].description)]_vars

C4_Witness ==
    /\ mode = "ai"
    /\ response = Raises
    /\ Categorized
    /\ Len(df.rows) = 3
    /\ df.rows[1].description = "ICA Supermarket"
    /\ df.rows[2].description = "Salary Deposit"
    /\ df.rows[3].description = "xyz"
    /\ df.rows[1].category = "Food & Groceries"
    /\ df.rows[2].category = "Income"
    /\ df.rows[3].category = "Other"

-----------------------------------------------------------------------------
(* Properties of the budget comparator *)

RECURSIVE ExpenseSpend(_, _, _)
\* the sum of abs_amount over the Expense rows 1..n of category c
ExpenseSpend(rows, c, n) ==
    IF n = 0 THEN 0
    ELSE ExpenseSpend(rows, c, n - 1)
         + (IF rows[n].type = "Expense" /\ rows[n].category = c
            THEN rows[n].abs_amount ELSE 0)

BudgetStatusReturned == budget_df # None /\ ~budget_df.raised

\* C5: budget_status returns exactly one row per key of the budgets mapping
\* and none for a category that is spent on but has no budget entry; each
\* row's spent is the sum of abs_amount over the Expense transactions of that
\* category, 0 when there is none.  Stated of every step that computes the
\* status from the session's table.
C5_OneRowPerBudgetKey ==
    [][(df' = df /\ budget_df' # budget_df) =>
          /\ ~budget_df'.raised
          /\ Len(budget_df'.rows) = Cardinality(DOMAIN budgets')
          /\ {r.Category : r \in Range(budget_df'.rows)} = DOMAIN budgets'
          /\ \A r \in Range(budget_df'.rows) :
               r.Spent = ExpenseSpend(df.rows, r.Category, Len(df.rows))]_vars

\* C5 for a budgets mapping with at least one entry
C5_WithSomeBudgetEntry ==
    [][(df' = df /\ budget_df' # budget_df /\ DOMAIN budgets' # {}) =>
          /\ ~budget_df'.raised
          /\ Len(budget_df'.rows) = Cardinality(DOMAIN budgets')
          /\ {r.Category : r \in Range(budget_df'.rows)} = DOMAIN budgets'
          /\ \A r \in Range(budget_df'.rows) :
               r.Spent = ExpenseSpend(df.rows, r.Category, Len(df.rows))]_vars

\* C6: in every row of budget_status the status is OverBudget exactly when
\* spent > budget (spent = budget is WithinBudget), and percent_used is
\* spent / budget * 100 for a non-zero budget and 0 for a budget of 0.
C6_StatusAndPercentUsed ==
    BudgetStatusReturned =>
        \A r \in Range(budget_df.rows) :
            /\ r.Budget = budgets[r.Category]
            /\ r.Status \in {"Over Budget", "Within Budget"}
            /\ r.Status = "Over Budget" <=> r.Spent > r.Budget
            /\ r.Budget # 0 => /\ r.Percent_Used.den * r.Budget > 0
                               /\ r.Percent_Used.num * r.Budget
                                      = r.Spent * 100 * r.Percent_Used.den
            /\ r.Budget = 0 => r.Percent_Used.num = 0

C6_Witness ==
    /\ BudgetStatusReturned
    /\ \E r \in Range(budget_df.rows) :
         r.Spent = 50 /\ r.Budget = 50 /\ r.Status = "Within Budget"
    /\ \E r \in Range(budget_df.rows) :
         r.Spent = 50 /\ r.Budget = 0 /\ r.Status = "Over Budget"

\* C7: budget monotonicity.  For one category and one budget value, a status
\* computed from an input whose spend is at least that of an earlier input has
\* a percent_used at least as large, and is OverBudget if the earlier was.
C7_Monotone ==
    [][(BudgetStatusReturned /\ budget_df' # None /\ ~budget_df'.raised) =>
          \A a \in Range(budget_df.rows), b \in Range(budget_df'.rows) :
              (a.Category = b.Category /\ a.Budget = b.Budget
                  /\ a.Spent <= b.Spent) =>
                  /\ FracLeq(a.Percent_Used, b.Percent_Used)
                  /\ a.Status = "Over Budget" => b.Status = "Over Budget"]_vars

\* a status of lower spend is on display and a table of higher spend is loaded
C7_Witness ==
    /\ BudgetStatusReturned
    /\ df # None
    /\ \E r \in Range(budget_df.rows) :
         /\ r.Budget = 50
         /\ r.Spent = 50
         /\ r.Status = "Within Budget"
         /\ ExpenseSpend(df.rows, r.Category, Len(df.rows)) = 100

-----------------------------------------------------------------------------
(* Properties of the recurring payment detector *)

\* the positions in the session's table of the expenses of description x
ExpensesOf(x) ==
    {i \in 1..Len(df.rows) :
        df.rows[i].type = "Expense" /\ df.rows[i].description = x}

ExpenseDescriptions ==
    {df.rows[i].description :
        i \in {j \in 1..Len(df.rows) : df.rows[j].type = "Expense"}}

\* the days between the earliest and the latest of the rows at positions I
Span(I) ==
    Max({df.rows[i].date : i \in I}) - Min({df.rows[i].date : i \in I})

\* the records detection emitted for description x
RecordsOf(x) ==
    {k \in 1..Len(recurring_df.rows) : recurring_df.rows[k].description = x}

\* one amount, and dates exactly 30 days apart
Regular(I) ==
    /\ \A i, j \in I : df.rows[i].abs_amount = df.rows[j].abs_amount
    /\ {df.rows[i].date : i \in I}
           = {Min({df.rows[j].date : j \in I}) + 30 * k :
                 k \in 0..(Cardinality(I) - 1)}

\* C8: for every min_occurrences in 2..10, expenses of one description, one
\* amount and exactly 30-day spacing give exactly one RecurringPayment,
\* labelled Monthly with occurrence_count = min_occurrences, when there are
\* min_occurrences of them, and none when there are min_occurrences - 1.
C8_CountBoundary ==
    recurring_df # None =>
        \A x \in ExpenseDescriptions :
            LET I == ExpensesOf(x)
            IN  Regular(I) =>
                  /\ Cardinality(I) = min_occurrences =>
                       /\ Cardinality(RecordsOf(x)) = 1
                       /\ \A k \in RecordsOf(x) :
                            /\ recurring_df.rows[k].frequency = "Monthly"
                            /\ recurring_df.rows[k].occurrences = min_occurrences
                  /\ Cardinality(I) = min_occurrences - 1 => RecordsOf(x) = {}

C8_Witness ==
    /\ recurring_df # None
    /\ min_occurrences = MinOccHigh
    /\ Regular(ExpensesOf("Netflix"))
    /\ Cardinality(ExpensesOf("Netflix")) = MinOccHigh
    /\ \E k \in RecordsOf("Netflix") :
         /\ recurring_df.rows[k].frequency = "Monthly"
         /\ recurring_df.rows[k].occurrences = MinOccHigh

\* stddev / mean of the abs_amounts at positions I exceeds 0.05: with n
\* amounts of sum S and sum of squares Q the population variance is
\* (n Q - S^2) / n^2 and the mean S / n; the ratio counts as 0 when S = 0
AmountsUnstable(I) ==
    LET n == Cardinality(I)
        a == [i \in I |-> df.rows[i].abs_amount]
        RECURSIVE Total(_, _)
        Total(J, f) ==
            IF J = {} THEN 0
            ELSE LET j == CHOOSE z \in J : TRUE
                 IN  f[j] + Total(J \ {j}, f)
        S == Total(I, a)
        Q == Total(I, [i \in I |-> a[i] * a[i]])
    IN  S # 0 /\ 400 * (n * Q - S * S) > S * S

\* C9: a description whose count and spacing qualify is left out whenever
\* stddev(abs_amount) / mean(abs_amount) > 0.05 (population standard
\* deviation, the ratio 0 for a mean of 0), and is never left out on amount
\* grounds when the ratio is at most 0.05.
C9_AmountStabilityGate ==
    recurring_df # None =>
        \A x \in ExpenseDescriptions :
            LET I == ExpensesOf(x)
            IN  (Cardinality(I) >= min_occurrences /\ Cardinality(I) >= 2) =>
                    (RecordsOf(x) = {} <=> AmountsUnstable(I))

\* amounts 19 and 21: the ratio is exactly 0.05 and the description is kept
C9_Witness ==
    /\ recurring_df # None
    /\ min_occurrences = MinOccLow
    /\ {df.rows[i].abs_amount : i \in ExpensesOf("Netflix")} = {19, 21}
    /\ Cardinality(ExpensesOf("Netflix")) = 2
    /\ ~AmountsUnstable(ExpensesOf("Netflix"))
    /\ RecordsOf("Netflix") # {}

IsEveryNDays(label) ==
    /\ Len(label) > 11
    /\ SubSeq(label, 1, 6) = "Every "
    /\ SubSeq(label, Len(label) - 4, Len(label)) = " days"

\* C10: for every emitted RecurringPayment, with avg_interval the mean of the
\* consecutive day-gaps of the date-sorted occurrences (their span divided by
\* the number of gaps), the label is Weekly iff 6 <= avg_interval <= 8,
\* Monthly iff 25 <= avg_interval <= 35, Quarterly iff 85 <= avg_interval <= 95,
\* Yearly iff 355 <= avg_interval <= 375, and 'Every N days' otherwise; three
\* 'Netflix' expenses of 139 spaced 30 and 31 days apart give one record,
\* Monthly with 3 occurrences.
C10_FrequencyBuckets ==
    recurring_df # None =>
        /\ \A k \in 1..Len(recurring_df.rows) :
             LET r == recurring_df.rows[k]
                 I == ExpensesOf(r.description)
                 gaps == Cardinality(I) - 1
                 span == Span(I)
                 Within(lo, hi) == lo * gaps <= span /\ span <= hi * gaps
             IN  /\ gaps >= 1
                 /\ r.avg_interval_days.den > 0
                 /\ r.avg_interval_days.num * gaps = span * r.avg_interval_days.den
                 /\ r.frequency = "Weekly" <=> Within(6, 8)
                 /\ r.frequency = "Monthly" <=> Within(25, 35)
                 /\ r.frequency = "Quarterly" <=> Within(85, 95)
                 /\ r.frequency = "Yearly" <=> Within(355, 375)
                 /\ ~(Within(6, 8) \/ Within(25, 35) \/ Within(85, 95)
                        \/ Within(355, 375)) => IsEveryNDays(r.frequency)
        /\ LET I == ExpensesOf("Netflix")
               first == Min({df.rows[i].date : i \in I})
           IN  (/\ Cardinality(I) = 3
                /\ \A i \in I : df.rows[i].abs_amount = 139
                /\ {df.rows[i].date : i \in I} = {first, first + 30, first + 61}
                /\ min_occurrences <= 3) =>
                   /\ Cardinality(RecordsOf("Netflix")) = 1
                   /\ \A k \in RecordsOf("Netflix") :
                        /\ recurring_df.rows[k].frequency = "Monthly"
                        /\ recurring_df.rows[k].occurrences = 3

C10_Witness ==
    /\ recurring_df # None
    /\ min_occurrences = MinOccDefault
    /\ Len(df.rows) = 3
    /\ \A i \in 1..3 : df.rows[i].description = "Netflix" /\ df.rows[i].amount = -139
    /\ df.rows[1].date - df.rows[2].date = 31
    /\ df.rows[2].date - df.rows[3].date = 30
    /\ Len(recurring_df.rows) = 1
    /\ recurring_df.rows[1].frequency = "Monthly"
    /\ recurring_df.rows[1].occurrences = 3

\* the label of the average span / gaps rounded down, and rounded to the
\* nearest whole number (either neighbour on a tie)
TruncatedLabel(span, gaps) == "Every " \o ToString(span \div gaps) \o " days"

NearestLabels(span, gaps) ==
    {"Every " \o ToString(n) \o " days" :
        n \in {m \in {span \div gaps, (span \div gaps) + 1} :
                 /\ 2 * (m * gaps - span) <= gaps
                 /\ 2 * (span - m * gaps) <= gaps}}

\* C20: a record whose average interval is in none of the four buckets is
\* labelled 'Every N days' with N the average rounded to the nearest whole
\* number.
C20_RoundedLabel ==
    recurring_df # None =>
        \A k \in 1..Len(recurring_df.rows) :
            LET r == recurring_df.rows[k]
                I == ExpensesOf(r.description)
            IN  IsEveryNDays(r.frequency) =>
                    r.frequency \in NearestLabels(Span(I), Cardinality(I) - 1)

\* C20, as the code has it: N is the average with its fraction cut off.
C20_TruncatedLabel ==
    recurring_df # None =>
        \A k \in 1..Len(recurring_df.rows) :
            LET r == recurring_df.rows[k]
                I == ExpensesOf(r.description)
            IN  IsEveryNDays(r.frequency) =>
                    r.frequency = TruncatedLabel(Span(I), Cardinality(I) - 1)

\* four payments 9, 9 and 14 days apart, 10.67 days on average, are
\* labelled 'Every 10 days'
C20_CutOffWitness ==
    /\ recurring_df # None
    /\ Len(df.rows) = 4
    /\ df.rows[1].date - df.rows[4].date = 32
    /\ Len(recurring_df.rows) = 1
    /\ recurring_df.rows[1].frequency = "Every 10 days"

-----------------------------------------------------------------------------
(* Properties of the insight generator *)

\* the generator handed a text to the parser and returned its bundle
Parsed ==
    /\ insights_run = "returned"
    /\ response.called
    /\ ~response.raised
    /\ response.content # <<>>

\* the lines of the text the parser was given
ParsedLines == SplitLines(Strip(response.content[1]))

IsHeader(line, keyword) == Contains(Upper(line), keyword)

\* a line that starts with '-' or the bullet and has more than markers on it
IsBulletLine(line) ==
    /\ StartsWith(Strip(line), "-") \/ StartsWith(Strip(line), Bullet)
    /\ \E i \in 1..Len(line) :
         SubSeq(line, i, i) \notin Whitespace \cup {"-", Bullet}

\* C11: for a response text with an INSIGHTS: header followed by at least one
\* bullet line ('-' or the bullet) of non-empty content and with no
\* RECOMMENDATIONS: header anywhere, parse_insights_response returns a bundle
\* with a non-empty insights sequence and an empty recommendations sequence,
\* and does not raise.
C11_MissingRecommendations ==
    Parsed =>
        ((/\ \E i, j \in 1..Len(ParsedLines) :
                /\ i < j
                /\ IsHeader(ParsedLines[i], "INSIGHTS:")
                /\ IsBulletLine(ParsedLines[j])
          /\ \A i \in 1..Len(ParsedLines) :
                ~IsHeader(ParsedLines[i], "RECOMMENDATIONS:"))
            => /\ ai_insights # None
               /\ ai_insights.insights # <<>>
               /\ ai_insights.recommendations = <<>>)

\* C11 for a bullet line that does not itself contain the text INSIGHTS:
C11_WithPlainBullet ==
    Parsed =>
        ((/\ \E i, j \in 1..Len(ParsedLines) :
                /\ i < j
                /\ IsHeader(ParsedLines[i], "INSIGHTS:")
                /\ IsBulletLine(ParsedLines[j])
                /\ ~IsHeader(ParsedLines[j], "INSIGHTS:")
          /\ \A i \in 1..Len(ParsedLines) :
                ~IsHeader(ParsedLines[i], "RECOMMENDATIONS:"))
            => /\ ai_insights # None
               /\ ai_insights.insights # <<>>
               /\ ai_insights.recommendations = <<>>)

\* C12: without an API key the generator returns the failure value (None)
\* and the service is not called; when the text-completion call, or the
\* handling of its answer, raises, the generator returns None; no exception
\* caused by the service reaches the caller.
C12_FailureIsAValue ==
    /\ (insights_run # "idle" /\ anthropic_api_key = "") =>
          /\ ~response.called
          /\ budget_df.raised \/ (insights_run = "returned" /\ ai_insights = None)
    /\ (insights_run # "idle" /\ response.called) =>
          /\ insights_run = "returned"
          /\ (response.raised \/ response.content = <<>>) => ai_insights = None
    /\ insights_run = "raised" => ~response.called

C12_Witness ==
    /\ insights_run = "returned"
    /\ anthropic_api_key # ""
    /\ response.called
    /\ response.raised
    /\ ai_insights = None

\* C18: every recommendation record the insight parser returns has a
\* priority field: a Category:, Action: or Impact: line that comes in the
\* recommendations section before any Priority: line neither starts nor
\* creates a record.
C18_RecordsHavePriority ==
    Parsed =>
        \A k \in 1..Len(ai_insights.recommendations) :
            "priority" \in DOMAIN ai_insights.recommendations[k]

\* C18 for the records that follow the first one
C18_LaterRecordsHavePriority ==
    Parsed =>
        \A k \in 2..Len(ai_insights.recommendations) :
            "priority" \in DOMAIN ai_insights.recommendations[k]

\* the section in force when line k is read: that of the last header before
\* it, the INSIGHTS: test coming first
SectionBefore(k) ==
    LET headers == {i \in 1..(k - 1) : IsHeader(ParsedLines[i], "INSIGHTS:")
                                        \/ IsHeader(ParsedLines[i], "RECOMMENDATIONS:")}
    IN  IF headers = {} THEN "None"
        ELSE IF IsHeader(ParsedLines[Max(headers)], "INSIGHTS:") THEN "insights"
        ELSE "recommendations"

\* line k is read in the recommendations section, is no header and starts
\* with the prefix
IsFieldLine(k, prefix) ==
    /\ SectionBefore(k) = "recommendations"
    /\ ~IsHeader(ParsedLines[k], "INSIGHTS:")
    /\ ~IsHeader(ParsedLines[k], "RECOMMENDATIONS:")
    /\ StartsWith(Strip(ParsedLines[k]), prefix)

\* what a line says after its prefix
ValueAfter(line, prefix) ==
    Strip(SubSeq(Strip(line), Len(prefix) + 1, Len(Strip(line))))

\* the positions of the Priority: lines, in input order
PriorityLines ==
    SelectSeq([k \in 1..Len(ParsedLines) |-> k], LAMBDA k : IsFieldLine(k, "Priority:"))

\* the returned records that have a priority, in output order
PriorityRecords ==
    SelectSeq(ai_insights.recommendations, LAMBDA r : "priority" \in DOMAIN r)

\* the lines of a prefix that come after the j-th Priority: line and before
\* the next one
FieldLinesOf(j, prefix) ==
    {k \in 1..Len(ParsedLines) :
        /\ IsFieldLine(k, prefix)
        /\ k > PriorityLines[j]
        /\ j < Len(PriorityLines) => k < PriorityLines[j + 1]}

\* record rec has under key what the last line of the prefix in K says, and
\* lacks the key when K is empty
HasField(rec, key, prefix, K) ==
    IF K = {} THEN key \notin DOMAIN rec
    ELSE key \in DOMAIN rec /\ rec[key] = ValueAfter(ParsedLines[Max(K)], prefix)

\* C22: the priorities of the returned records, in output order, are the
\* values of the Priority: lines read in the recommendations section, in
\* input order: each such line closes the record in progress and opens one,
\* the last record is returned too, none is lost or returned twice; and each
\* Category:, Action: or Impact: value is on the record opened by the nearest
\* Priority: line before it.
C22_RecordSequencing ==
    Parsed =>
        /\ Len(PriorityRecords) = Len(PriorityLines)
        /\ \A j \in 1..Len(PriorityLines) :
              /\ PriorityRecords[j].priority =
                     ValueAfter(ParsedLines[PriorityLines[j]], "Priority:")
              /\ HasField(PriorityRecords[j], "category", "Category:",
                          FieldLinesOf(j, "Category:"))
              /\ HasField(PriorityRecords[j], "action", "Action:",
                          FieldLinesOf(j, "Action:"))
              /\ HasField(PriorityRecords[j], "impact", "Impact:",
                          FieldLinesOf(j, "Impact:"))
        /\ \A k \in 2..Len(ai_insights.recommendations) :
              "priority" \in DOMAIN ai_insights.recommendations[k]

\* two Priority: lines in a row and a Category: line give two records, the
\* category on the second
C22_Witness ==
    /\ Parsed
    /\ ParsedLines = <<"RECOMMENDATIONS:", "Priority: HIGH", "Priority: LOW",
                       "Category: Food">>
    /\ ai_insights.recommendations =
           <<[priority |-> "HIGH"], [priority |-> "LOW", category |-> "Food"]>>

\* the parser's locals after the first k lines
LocalsAfter(k) == ParseLines(ParserStart, SubSeq(ParsedLines, 1, k))

RecordPrefixes == {"Priority:", "Category:", "Action:", "Impact:"}

\* C23: a line changes the parser's output only by the section in force when
\* it is read: a bullet line adds an insight only in the insights section, a
\* Priority:, Category:, Action: or Impact: line alters the recommendations
\* only in the recommendations section; a line before the first header, a
\* header line and a line of no recognized prefix change neither, whatever
\* the order and repetition of the headers.
C23_SectionAwareness ==
    Parsed =>
        /\ \A k \in 1..Len(ParsedLines) :
              LET before == LocalsAfter(k - 1)
                  after == LocalsAfter(k)
                  line == Strip(ParsedLines[k])
                  header == IsHeader(line, "INSIGHTS:") \/ IsHeader(line, "RECOMMENDATIONS:")
                  bullet == StartsWith(line, "-") \/ StartsWith(line, Bullet)
                  field == \E prefix \in RecordPrefixes : StartsWith(line, prefix)
                  SameInsights == after.insights = before.insights
                  SameRecommendations ==
                      /\ after.recommendations = before.recommendations
                      /\ after.current_rec = before.current_rec
              IN  /\ before.current_section = SectionBefore(k)
                  /\ (header \/ SectionBefore(k) = "None")
                        => SameInsights /\ SameRecommendations
                  /\ (SectionBefore(k) # "insights" \/ ~bullet) => SameInsights
                  /\ (SectionBefore(k) # "recommendations" \/ ~field)
                        => SameRecommendations
                  /\ (~header /\ SectionBefore(k) = "insights" /\ bullet
                        /\ IsBulletLine(line))
                        => Len(after.insights) = Len(before.insights) + 1
                  /\ (~header /\ SectionBefore(k) = "recommendations" /\ field)
                        => after.current_rec # <<>>
        /\ LET end == LocalsAfter(Len(ParsedLines))
           IN  /\ ai_insights.insights = end.insights
               /\ ai_insights.recommendations =
                      IF end.current_rec = <<>> THEN end.recommendations
                      ELSE Append(end.recommendations, end.current_rec)

\* a bullet read before the first header and a bullet read in the
\* recommendations section leave no trace
C23_Witness ==
    /\ Parsed
    /\ ParsedLines = <<"- Eat in", "RECOMMENDATIONS:", "- Eat in">>
    /\ ai_insights = [insights |-> <<>>, recommendations |-> <<>>]

\* a field line read in the insights section and a bullet read in the
\* recommendations section are both ignored
C23_CrossWitness ==
    /\ Parsed
    /\ ParsedLines = <<"INSIGHTS:", "Category: Food", "- Eat in">>
    /\ ai_insights = [insights |-> <<"Eat in">>, recommendations |-> <<>>]

-----------------------------------------------------------------------------
(* Properties of the ratios *)

IsZero(f) == f.num = 0 /\ f.den # 0

\* the description x has expenses enough to count, all of abs_amount 0
ZeroMeanGroup(x) ==
    /\ Cardinality(ExpensesOf(x)) >= min_occurrences
    /\ Cardinality(ExpensesOf(x)) >= 2
    /\ \A i \in ExpensesOf(x) : df.rows[i].abs_amount = 0

\* C13: zero-denominator policy.  A budget of 0 gives percent_used 0; a mean
\* amount of 0 gives a coefficient of variation of 0, so that the description
\* passes the 0.05 test and is reported with amount 0; a total income of 0
\* gives a savings rate of 0.  Each operation completes with the value 0.
C13_ZeroDenominators ==
    /\ (budget_df # None /\ \E c \in DOMAIN budgets : budgets[c] = 0) =>
          /\ ~budget_df.raised
          /\ \A r \in Range(budget_df.rows) :
               r.Budget = 0 => IsZero(r.Percent_Used)
    /\ recurring_df # None =>
          \A x \in ExpenseDescriptions :
              ZeroMeanGroup(x) =>
                  /\ RecordsOf(x) # {}
                  /\ \A k \in RecordsOf(x) : IsZero(recurring_df.rows[k].amount)
    /\ (stats # None /\ \A i \in 1..Len(df.rows) : ~(df.rows[i].amount > 0)) =>
          /\ stats.total_income = 0
          /\ IsZero(stats.savings_rate)

C13_Witness ==
    /\ budget_df # None
    /\ \E r \in Range(budget_df.rows) : r.Budget = 0 /\ r.Spent = 139
    /\ recurring_df # None
    /\ ZeroMeanGroup("Netflix")
    /\ RecordsOf("Netflix") # {}
    /\ stats # None
    /\ stats.total_income = 0
    /\ stats.total_expenses = 139

-----------------------------------------------------------------------------
(* Properties of ingestion *)

\* a load has taken place and returned a table
TableLoaded == last_load # None /\ last_load.error = None

\* a load has taken place and a CSV strategy's table went on to the columns
TableRead ==
    /\ last_load # None
    /\ last_load.attempts # <<>>
    /\ ~last_load.attempts[Len(last_load.attempts)].table.raised

UsedTable == last_load.attempts[Len(last_load.attempts)].table

UsedColumns == [k \in 1..Len(UsedTable.columns) |-> NormalizeColumn(UsedTable.columns[k])]

\* C14: in every table ingestion returns, a row's type is "Income" exactly
\* when its amount is above 0 (0 and below give "Expense"), and its
\* abs_amount is the magnitude of its amount.
C14_TypeDerivation ==
    TableLoaded =>
        \A i \in 1..Len(last_load.df.rows) :
            LET row == last_load.df.rows[i]
            IN  /\ row.type \in {"Income", "Expense"}
                /\ row.type = "Income" <=> row.amount > 0
                /\ row.abs_amount >= 0
                /\ row.abs_amount \in {row.amount, -row.amount}

\* a table is returned that holds an amount of 0 as an expense beside an income
C14_Witness ==
    /\ TableLoaded
    /\ df = last_load.df
    /\ \E i, j \in 1..Len(df.rows) :
         /\ df.rows[i].amount = 0 /\ df.rows[i].type = "Expense"
         /\ df.rows[j].amount > 0 /\ df.rows[j].type = "Income"

\* row i of the file as written: its date is a date, its amount a number in
\* the convention of the strategy that read it, its description present
ValidInputRow(i) ==
    LET cell(name) == UsedTable.tokens[i][ColumnIndex(UsedColumns, name)]
    IN  /\ ~cell("date").na /\ ParseDate(cell("date").text).ok
        /\ ~cell("amount").na /\ ParseNumber(cell("amount").text, UsedTable.decimal).ok
        /\ ~cell("description").na

ValidInputRows == {i \in 1..Len(UsedTable.tokens) : ValidInputRow(i)}

\* the row that valid row i of the file gives
CanonicalRow(i) ==
    LET cell(name) == UsedTable.tokens[i][ColumnIndex(UsedColumns, name)]
    IN  MakeRow(ParseDate(cell("date").text).value,
                cell("description").text,
                ParseNumber(cell("amount").text, UsedTable.decimal).value)

\* C15: the table returned holds exactly the rows of the file whose date
\* parses, whose amount is numeric and whose description is present: an
\* invalid row is dropped without touching the others.
C15_ExactlyValidRows ==
    (TableLoaded /\ TableRead) =>
        /\ Len(last_load.df.rows) = Cardinality(ValidInputRows)
        /\ \A i \in ValidInputRows : CanonicalRow(i) \in Range(last_load.df.rows)

\* the amount column as the reader types it: numbers when every present cell
\* is one, text otherwise
AmountColumnNumeric ==
    \A i \in 1..Len(UsedTable.tokens) :
        LET cell == UsedTable.tokens[i][ColumnIndex(UsedColumns, "amount")]
        IN  cell.na \/ ParseNumber(cell.text, UsedTable.decimal).ok

\* C15, as far as it holds: every row returned comes from a valid row of the
\* file, and when the amount column holds numbers only every valid row is
\* returned.
C15_ValidRowsOfNumericColumn ==
    (TableLoaded /\ TableRead) =>
        /\ \A n \in 1..Len(last_load.df.rows) :
              \E i \in ValidInputRows : last_load.df.rows[n] = CanonicalRow(i)
        /\ AmountColumnNumeric =>
              /\ Len(last_load.df.rows) = Cardinality(ValidInputRows)
              /\ \A i \in ValidInputRows : CanonicalRow(i) \in Range(last_load.df.rows)

\* the names a required column may bear in a file, case and margins apart
Aliases ==
    [date        |-> {"date", "datum"},
     description |-> {"description", "beskrivning"},
     amount      |-> {"amount", "belopp"}]

Bears(header, col) == \E k \in 1..Len(header) : Strip(Lower(header[k])) \in Aliases[col]

\* the required columns no name of the header stands for
AbsentColumns(header) ==
    SelectSeq(<<"date", "description", "amount">>, LAMBDA col : ~Bears(header, col))

\* the header of the file a load has read, by the sheet or the strategy used
HeaderRead ==
    IF last_load.attempts # <<>> THEN UsedTable.columns
    ELSE SplitOn(last_load.file.lines[1], "\t")

HeaderWasRead ==
    /\ last_load # None
    /\ \/ TableRead
       \/ /\ last_load.attempts = <<>>
          /\ last_load.file.workbook
          /\ last_load.file.lines # <<>>
          /\ last_load.error # Message("Unsupported file format. Please upload CSV or Excel file.")

Doubled(header, col) ==
    Cardinality({k \in 1..Len(header) : Strip(Lower(header[k])) \in Aliases[col]}) > 1

C16_AliasWitness ==
    /\ HeaderWasRead
    /\ HeaderRead = <<"Datum", "Beskrivning", "Belopp", "Konto">>
    /\ last_load.error = None

Failed(attempt, min_columns) ==
    attempt.table.raised \/ Len(attempt.table.columns) < min_columns

\* C17: a CSV load tries (a), then (b), then (c); (b) is tried exactly when
\* (a) raised or gave fewer than 2 columns, (c) exactly when (b) raised too;
\* the table of the last strategy tried is the one whose columns are looked
\* at; when all three raise the load returns an error message and no table.
C17_StrategyOrder ==
    (last_load # None /\ last_load.attempts # <<>>) =>
        LET attempts == last_load.attempts
            n == Len(attempts)
        IN  /\ n <= 3
            /\ \A i \in 1..n : attempts[i].strategy = <<"a", "b", "c">>[i]
            /\ attempts[1].table = read_csv(last_load.file.lines, ";", ",")
            /\ n >= 2 <=> Failed(attempts[1], 2)
            /\ n >= 2 => attempts[2].table = read_csv(last_load.file.lines, ",", ".")
            /\ n = 3 <=> (Failed(attempts[1], 2) /\ Failed(attempts[2], 0))
            /\ ~attempts[n].table.raised =>
                  /\ \A i \in 1..(n - 1) : Failed(attempts[i], IF i = 1 THEN 2 ELSE 0)
                  /\ last_load.error = None =>
                        last_load.df.columns =
                            {NormalizeColumn(attempts[n].table.columns[k]) :
                                k \in 1..Len(attempts[n].table.columns)} \cup BaseColumns
            /\ attempts[n].table.raised =>
                  /\ n = 3
                  /\ last_load.df = None
                  /\ last_load.error = Message("Error loading file: " \o attempts[n].table.e)

\* (a) read the file without raising but as one column, and (b)'s table is
\* the one returned
C17_Witness ==
    /\ last_load # None
    /\ Len(last_load.attempts) = 2
    /\ ~last_load.attempts[1].table.raised
    /\ Len(last_load.attempts[1].table.columns) = 1
    /\ last_load.error = None
    /\ Len(last_load.df.rows) = 2

\* all three strategies raised and the load returned a message
C17_AllFailWitness ==
    /\ last_load # None
    /\ Len(last_load.attempts) = 3
    /\ \A i \in 1..3 : last_load.attempts[i].table.raised
    /\ last_load.error # None
    /\ last_load.df = None
    /\ df = None

-----------------------------------------------------------------------------
(* Properties of the prompt's cap *)

LongTableCategorized ==
    /\ Categorized
    /\ mode = "ai"
    /\ ~cat_error
    /\ Len(df.rows) > PromptCap

\* C19: in AI-assisted mode on a table of more than 50 transactions, the
\* prompt lists the first 50 only, and every transaction after them has the
\* category the rule-based matcher gives its description, whatever the
\* service answered.
C19_RestIsRuleBased ==
    LongTableCategorized =>
        /\ Len(prompt) = PromptCap
        /\ \A i \in 1..PromptCap : prompt[i].description = df.rows[i].description
        /\ \A i \in (PromptCap + 1)..Len(df.rows) :
              df.rows[i].category = categorize_transaction_simple(df.rows[i].description)

\* C19, as far as it holds: the prompt lists the first 50 transactions only,
\* and the transactions after the labels of the answer are rule-based; with
\* an answer of at most 50 labels those include every one after the 50th.
C19_RestAfterLabelsIsRuleBased ==
    LongTableCategorized =>
        /\ Len(prompt) = PromptCap
        /\ \A i \in 1..PromptCap : prompt[i].description = df.rows[i].description
        /\ \A i \in (PromptCap + 1)..Len(df.rows) :
              (response.raised \/ i > Len(ParseLabels(response.text)))
                 => df.rows[i].category =
                        categorize_transaction_simple(df.rows[i].description)

\* an answer of 51 labels puts the service's label on the 51st transaction,
\* which the prompt did not list
C19_LabelPastTheCap ==
    /\ LongTableCategorized
    /\ ~response.raised
    /\ Len(ParseLabels(response.text)) = PromptCap + 1
    /\ df.rows[PromptCap + 1].description = "ICA Supermarket"
    /\ df.rows[PromptCap + 1].category = "Shopping"


-----------------------------------------------------------------------------
(* Properties of the recurring totals *)

FixedLabels == {"Monthly", "Quarterly", "Yearly", "Weekly"}

\* the totals at hand are those of the session's detection result
TotalsComputed == recurring_df # None /\ totals # None

\* what one entry adds to the monthly total, by its label
Contribution(r) ==
    CASE r.frequency = "Monthly"   -> r.amount
      [] r.frequency = "Quarterly" -> Frac(r.amount.num, 3 * r.amount.den)
      [] r.frequency = "Yearly"    -> Frac(r.amount.num, 12 * r.amount.den)
      [] r.frequency = "Weekly"    -> Frac(433 * r.amount.num, 100 * r.amount.den)
      [] OTHER -> Frac(3044 * r.amount.num * r.avg_interval_days.den,
                       100 * r.amount.den * r.avg_interval_days.num)

\* C24: each recurring payment counts in monthly_total with its amount when
\* Monthly, a third of it when Quarterly, a twelfth when Yearly, 4.33 times
\* it when Weekly and amount * 30.44 / avg_interval_days under a free-form
\* label; monthly_total is the sum over the entries, yearly_total is 12 times
\* monthly_total, count is the number of entries, and all three are 0 for an
\* empty result.
C24_MonthlyNormalization ==
    (TotalsComputed /\ ~totals.raised) =>
        LET rows == recurring_df.rows
        IN  /\ totals.count = Len(rows)
            /\ totals.monthly_total.den > 0 /\ totals.yearly_total.den > 0
            /\ totals.monthly_total
                  = FracSum([k \in 1..Len(rows) |-> Reduced(Contribution(rows[k]))])
            /\ totals.yearly_total
                  = Reduced(Frac(12 * totals.monthly_total.num, totals.monthly_total.den))
            /\ rows = <<>> => /\ totals.monthly_total.num = 0
                              /\ totals.yearly_total.num = 0
                              /\ totals.count = 0

\* a weekly payment of 139 kr beside a monthly one of 450 kr: 139 * 4.33 +
\* 450 = 1051.87 a month, 12622.44 a year
C24_Witness ==
    /\ TotalsComputed
    /\ ~totals.raised
    /\ totals.count = 2
    /\ \E k \in 1..2 : recurring_df.rows[k].frequency = "Weekly"
    /\ \E k \in 1..2 : recurring_df.rows[k].frequency = "Monthly"
    /\ totals.monthly_total = Frac(105187, 100)
    /\ totals.yearly_total = Frac(315561, 25)

\* the totals of an empty result are all 0
C24_EmptyWitness ==
    /\ TotalsComputed
    /\ recurring_df.rows = <<>>
    /\ totals = [raised |-> FALSE, monthly_total |-> Frac(0, 1),
                 yearly_total |-> Frac(0, 1), count |-> 0]

\* a payment of 139 kr every 36 days: 139 * 30.44 / 36 a month
C24_FreeFormWitness ==
    /\ TotalsComputed
    /\ ~totals.raised
    /\ totals.count = 1
    /\ recurring_df.rows[1].frequency = "Every 36 days"
    /\ totals.monthly_total = Frac(105779, 900)

\* C27: every recurring payment detected has avg_interval_days > 0, at least
\* max(2, min_occurrences) occurrences and first_date <= last_date, also when
\* occurrences of a description share a date; so the free-form normalization
\* never divides by zero.
C27_PositiveInterval ==
    /\ recurring_df # None =>
          \A k \in 1..Len(recurring_df.rows) :
              LET r == recurring_df.rows[k]
              IN  /\ r.avg_interval_days.num > 0 /\ r.avg_interval_days.den > 0
                  /\ r.occurrences >= Max({2, min_occurrences})
                  /\ r.first_date <= r.last_date
    /\ TotalsComputed => ~totals.raised

\* C27 without the interval: the occurrence count and the order of the dates
C27_CountAndDates ==
    recurring_df # None =>
        \A k \in 1..Len(recurring_df.rows) :
            LET r == recurring_df.rows[k]
            IN  /\ r.avg_interval_days.num >= 0 /\ r.avg_interval_days.den > 0
                /\ r.occurrences >= Max({2, min_occurrences})
                /\ r.first_date <= r.last_date
                /\ r.avg_interval_days.num = 0 <=> r.first_date = r.last_date

\* two payments of one date are detected with an average interval of 0 days
\* and the totals divide by it
C27_SameDateWitness ==
    /\ TotalsComputed
    /\ Len(df.rows) = 2
    /\ df.rows[1].date = df.rows[2].date
    /\ Len(recurring_df.rows) = 1
    /\ recurring_df.rows[1].avg_interval_days.num = 0
    /\ recurring_df.rows[1].frequency = "Every 0 days"
    /\ totals.raised

-----------------------------------------------------------------------------
(* Properties of the financial summary *)

\* the summary at hand was built from the session's table and budget status
Summarized == summary # None /\ budget_df # None /\ ~budget_df.raised

ListedOverBudget ==
    {summary.over_budget[k].Category : k \in 1..Len(summary.over_budget)}

StatusOverBudget ==
    {budget_df.rows[k].Category :
        k \in {j \in 1..Len(budget_df.rows) : budget_df.rows[j].Status = "Over Budget"}}

\* C28: every category the summary lists as over budget (spent /
\* period_months > budget) is Over Budget in the budget status it was built
\* from (spent > budget), for a spend that is never negative and a period of
\* 1 month or more; for a period of 1 month the listed categories are
\* exactly the Over Budget rows.
C28_OverBudgetConsistent ==
    Summarized =>
        /\ summary.period_months >= 1
        /\ \A k \in 1..Len(budget_df.rows) : budget_df.rows[k].Spent >= 0
        /\ ListedOverBudget \subseteq StatusOverBudget
        /\ summary.period_months = 1 => ListedOverBudget = StatusOverBudget

\* 150 kr spent in two months on a budget of 50 kr is listed, 50 kr over a
\* month; 50 kr of the other category on a budget of 0 is listed too
C28_Witness ==
    /\ Summarized
    /\ summary.period_months = 2
    /\ ListedOverBudget = BudgetCategories
    /\ \E k \in 1..2 : summary.over_budget[k] = [Category |-> "Other", over_by |-> Frac(50, 2)]

\* over the period but not over a month: Over Budget in the status, not
\* listed in the summary
C28_PeriodWitness ==
    /\ Summarized
    /\ summary.period_months > 1
    /\ "Other" \in StatusOverBudget \ ListedOverBudget

\* a period of one month with a category over budget
C28_OneMonthWitness ==
    /\ Summarized
    /\ summary.period_months = 1
    /\ Len(df.rows) = 2
    /\ ListedOverBudget = {"Other"}

\* the calendar months (year and month) in which the table has an expense,
\* as numbers that grow with time
ExpenseMonths ==
    {12 * YearOf(r.date) + MonthOf(r.date) :
        r \in {q \in Range(df.rows) : q.type = "Expense"}}

\* the expenses of one calendar month, summed
MonthTotal(ym) ==
    SumAbsAmount(FilterRows(df.rows,
        {i \in 1..Len(df.rows) :
            /\ df.rows[i].type = "Expense"
            /\ 12 * YearOf(df.rows[i].date) + MonthOf(df.rows[i].date) = ym}))

\* the three most recent calendar months with an expense (fewer when there
\* are fewer)
RecentMonths ==
    {ym \in ExpenseMonths : Cardinality({z \in ExpenseMonths : z > ym}) < 3}

\* the change in percent from the earliest to the latest of RecentMonths
ChronologicalTrend ==
    LET earliest == MonthTotal(Min(RecentMonths))
        latest == MonthTotal(Max(RecentMonths))
    IN  Frac((latest - earliest) * 100, earliest)

\* C21: whenever the expenses fall into at least 2 monthly buckets, the trend
\* of the summary is the change in percent from the chronologically earliest
\* to the chronologically latest of the three most recent monthly expense
\* totals, also for dates that cross a calendar-year boundary.
C21_ChronologicalTrend ==
    (Summarized /\ Cardinality(ExpenseMonths) >= 2) =>
        /\ summary.trend # None
        /\ FracEq(summary.trend, ChronologicalTrend)

\* C21 for expenses of one calendar year: there the month numbers are in the
\* order of time
C21_TrendWithinYear ==
    (Summarized /\ Cardinality(ExpenseMonths) >= 2
        /\ Cardinality({YearOf(r.date) : r \in Range(df.rows)}) = 1) =>
        /\ summary.trend # None
        /\ FracEq(summary.trend, ChronologicalTrend)

\* October, November and December of one year, 50, 50 and 100 kr: +100 %
C21_WithinYearWitness ==
    /\ Summarized
    /\ Len(df.rows) = 3
    /\ {r.date : r \in Range(df.rows)} = {280, 310, 340}
    /\ summary.trend = Frac(5000, 50)
    /\ FracEq(summary.trend, ChronologicalTrend)

\* November 50 kr, December 50 kr, January 100 kr: spending doubled from
\* November to January, and the summary reports the change from January to
\* December, -50 %
C21_YearBoundaryWitness ==
    /\ Summarized
    /\ Len(df.rows) = 3
    /\ {r.date : r \in Range(df.rows)} = {310, 340, 370}
    /\ ChronologicalTrend = Frac(5000, 50)
    /\ summary.trend = Frac(-5000, 100)

\* January of one year and January of the next: two monthly buckets, one
\* month number, and no trend in the summary
C21_SameMonthWitness ==
    /\ Summarized
    /\ {r.date : r \in Range(df.rows)} = {4, 370}
    /\ Cardinality(ExpenseMonths) = 2
    /\ summary.trend = None

-----------------------------------------------------------------------------
(* Properties of the page *)

\* the run rendered last followed a click on "Categorize Transactions"
AfterCategorize ==
    page # None /\ page.view = "dashboard" /\ page.trigger = "categorize"

\* the uploader holds a file that loads
LoadableUpload ==
    /\ uploaded_file # None
    /\ \E r \in UploadResults[uploaded_file] : r.error = None

\* C25: the run that follows "Categorize Transactions" renders with
\* categorized set and a session table that has the category column, so
\* that the budget, recurring and insight sections are there, for a table
\* from "Load Sample Data" and for one from a file still in the uploader.
C25_CategorizedAfterClick ==
    AfterCategorize =>
        /\ categorized
        /\ page.categorized
        /\ "category" \in df.columns
        /\ {"budget", "recurring", "insights"} \subseteq page.sections

\* C25 with no loadable file in the uploader: the sample, a table whose file
\* was taken out again, or a file that fails to load beside either
C25_WithoutUpload ==
    (AfterCategorize /\ ~LoadableUpload) =>
        /\ categorized
        /\ page.categorized
        /\ "category" \in df.columns
        /\ {"budget", "recurring", "insights"} \subseteq page.sections

\* with a loadable file in the uploader no run ends categorized: every run
\* loads the file again
C25_UploadResets ==
    LoadableUpload => /\ ~categorized
                      /\ "category" \notin df.columns
                      /\ page.sections = {}

\* the sample is categorized
C25_SampleWitness ==
    /\ AfterCategorize
    /\ uploaded_file = None
    /\ last_load.file \in AppSampleFiles
    /\ page.categorized
    /\ "category" \in df.columns
    /\ page.sections = {"budget", "recurring", "insights"}

\* an uploaded table after the click: not categorized, no section
C25_UploadWitness ==
    /\ AfterCategorize
    /\ LoadableUpload
    /\ mode = "rule"
    /\ ~categorized
    /\ "category" \notin df.columns
    /\ page.sections = {}

\* the summary of the session's table
SummaryOfTable ==
    {create_financial_summary(df, status.rows, DateRangeMonths(df)) :
        status \in get_budget_status(Expenses(df), budgets)}

\* C26: the recurring payments and the insights displayed are those of the
\* session's table: after another dataset has replaced the table, results
\* of the dataset before are not shown until detection or generation has
\* run on the new table.
C26_ResultsOfSessionTable ==
    (page # None /\ page.view = "dashboard") =>
        /\ page.recurring # None =>
               page.recurring \in detect_recurring_payments(df, min_occurrences)
        /\ page.insights # None => summary \in SummaryOfTable

\* the recurring payments displayed are what the session holds
C26_DisplayedIsStored ==
    (page # None /\ page.view = "dashboard") =>
        /\ page.recurring # None => page.recurring = recurring_df
        /\ page.insights # None => page.insights = ai_insights

\* the subscription detected in the uploaded file is displayed beside the
\* sample's table, which has no such payment
C26_StaleRecurringWitness ==
    /\ page # None
    /\ page.view = "dashboard"
    /\ last_load.file \in AppSampleFiles
    /\ page.recurring # None
    /\ Len(page.recurring.rows) = 1
    /\ page.recurring.rows[1].description = "Netflix"
    /\ \A k \in 1..Len(df.rows) : df.rows[k].description = "ICA"

\* insights generated for one table are displayed beside another
C26_StaleInsightsWitness ==
    /\ page # None
    /\ page.view = "dashboard"
    /\ page.insights # None
    /\ summary \notin SummaryOfTable
=============================================================================
